---- MODULE Spec2Model ----
(***************************************************************************)
(* Field-access-control layer of the ACT personal-AI tools:                *)
(*   BaseTool  (tools/base_tool.py)  field tiers and the review classifier *)
(*   GHLTool   (tools/ghl_tool.py)   the mock contact store and its five   *)
(*                                   operations                            *)
(* Python values are encoded as tagged pairs: <<"int", n>> for int and     *)
(* bool (True == 1, False == 0 in Python), <<"str", s>> for str and        *)
(* <<"NoneType", 0>> for None.  A Python dict given as an ARGUMENT is a    *)
(* sequence of <<key, value>> pairs with distinct keys (iteration order is *)
(* insertion order); a stored customFields dict is a function.             *)
(* loop is the asyncio event loop when two calls are issued as tasks.      *)
(***************************************************************************)
EXTENDS Integers, Sequences, FiniteSets, TLC

VARIABLES mock_contacts, last, probe, loop, tracker

vars == <<mock_contacts, last, probe, loop, tracker>>

-----------------------------------------------------------------------------
(* Python values *)

PyInt(n) == <<"int", n>>
PyStr(s) == <<"str", s>>
PyNone == <<"NoneType", 0>>
PyTrue == PyInt(1)
PyFalse == PyInt(0)

\* bool(v): None, 0, False and '' are falsy
Truthy(v) == IF v[1] = "int" THEN v[2] # 0
             ELSE IF v[1] = "str" THEN v[2] # ""
             ELSE FALSE

\* d.get(key) on a stored dict
DictGet(d, key) == IF key \in DOMAIN d THEN d[key] ELSE PyNone

\* keys of an argument dict, in iteration order
Keys(items) == [i \in 1..Len(items) |-> items[i][1]]

\* dict.update(items) on a stored dict
DictUpdate(d, items) ==
    [k \in DOMAIN d \cup {items[i][1] : i \in 1..Len(items)} |->
        IF \E i \in 1..Len(items) : items[i][1] = k
        THEN items[CHOOSE i \in 1..Len(items) : items[i][1] = k][2]
        ELSE d[k]]

-----------------------------------------------------------------------------
(* str methods used by the classifier *)

LowerChar(c) ==
    CASE c = "A" -> "a" [] c = "B" -> "b" [] c = "C" -> "c" [] c = "D" -> "d"
      [] c = "E" -> "e" [] c = "F" -> "f" [] c = "G" -> "g" [] c = "H" -> "h"
      [] c = "I" -> "i" [] c = "J" -> "j" [] c = "K" -> "k" [] c = "L" -> "l"
      [] c = "M" -> "m" [] c = "N" -> "n" [] c = "O" -> "o" [] c = "P" -> "p"
      [] c = "Q" -> "q" [] c = "R" -> "r" [] c = "S" -> "s" [] c = "T" -> "t"
      [] c = "U" -> "u" [] c = "V" -> "v" [] c = "W" -> "w" [] c = "X" -> "x"
      [] c = "Y" -> "y" [] c = "Z" -> "z"
      [] OTHER -> c

RECURSIVE Lower(_)
Lower(s) == IF Len(s) = 0 THEN ""
            ELSE LowerChar(SubSeq(s, 1, 1)) \o Lower(SubSeq(s, 2, Len(s)))

\* sub in s
Contains(s, sub) ==
    \E i \in 1..(Len(s) - Len(sub) + 1) : SubSeq(s, i, i + Len(sub) - 1) = sub

\* s.startswith(prefix)
StartsWith(s, prefix) ==
    Len(s) >= Len(prefix) /\ SubSeq(s, 1, Len(prefix)) = prefix

\* x in lst
InList(x, lst) == \E i \in 1..Len(lst) : lst[i] = x

-----------------------------------------------------------------------------
(* BaseTool: field tiers *)

BLOCKED_FIELDS == <<"elder_consent", "sacred_knowledge">>

\* faulty variant: elder_consent is also listed as read-only
READ_ONLY_FIELDS_WithConsent ==
    <<"cultural_protocols", "supabase_user_id", "elder_review_required", "elder_consent">>

READ_ONLY_FIELDS == <<"cultural_protocols", "supabase_user_id", "elder_review_required">>

NoError == [type |-> "None", field |-> "", operation |-> "", tier |-> ""]

PermissionError(field_name, operation, tier) ==
    [type |-> "PermissionError", field |-> field_name, operation |-> operation, tier |-> tier]

ValueError(contact_id) ==
    [type |-> "ValueError", field |-> contact_id, operation |-> "", tier |-> ""]

\* faulty variant: the blocked tier only guards modification
check_cultural_protocol_BlockedWriteOnly(field_name, operation, context) ==
    IF InList(field_name, BLOCKED_FIELDS) /\ operation \in {"write", "delete"}
    THEN PermissionError(field_name, operation, "BLOCKED")
    ELSE IF InList(field_name, READ_ONLY_FIELDS) /\ operation \in {"write", "delete"}
    THEN PermissionError(field_name, operation, "READ_ONLY")
    ELSE NoError

\* faulty variant: the read-only tier forgets 'delete'
check_cultural_protocol_NoDelete(field_name, operation, context) ==
    IF InList(field_name, BLOCKED_FIELDS)
    THEN PermissionError(field_name, operation, "BLOCKED")
    ELSE IF InList(field_name, READ_ONLY_FIELDS) /\ operation \in {"write"}
    THEN PermissionError(field_name, operation, "READ_ONLY")
    ELSE NoError

\* faulty variant: the field name is lower-cased before the tier lookup
check_cultural_protocol_CaseInsensitive(field_name, operation, context) ==
    IF InList(Lower(field_name), BLOCKED_FIELDS)
    THEN PermissionError(field_name, operation, "BLOCKED")
    ELSE IF InList(Lower(field_name), READ_ONLY_FIELDS) /\ operation \in {"write", "delete"}
    THEN PermissionError(field_name, operation, "READ_ONLY")
    ELSE NoError

\* the exception check_cultural_protocol raises, NoError when it returns
check_cultural_protocol(field_name, operation, context) ==
    IF InList(field_name, BLOCKED_FIELDS)
    THEN PermissionError(field_name, operation, "BLOCKED")
    ELSE IF InList(field_name, READ_ONLY_FIELDS) /\ operation \in {"write", "delete"}
    THEN PermissionError(field_name, operation, "READ_ONLY")
    ELSE NoError

-----------------------------------------------------------------------------
(* BaseTool: the review classifier *)

\* ', '.join(lst)
RECURSIVE Join(_)
Join(lst) == IF lst = <<>> THEN ""
             ELSE IF Len(lst) = 1 THEN lst[1]
             ELSE lst[1] \o ", " \o Join(Tail(lst))

\* s.strip(), for the blanks an f-string of two names can leave
RECURSIVE Strip(_)
Strip(s) == IF Len(s) = 0 THEN s
            ELSE IF SubSeq(s, 1, 1) = " " THEN Strip(SubSeq(s, 2, Len(s)))
            ELSE IF SubSeq(s, Len(s), Len(s)) = " " THEN Strip(SubSeq(s, 1, Len(s) - 1))
            ELSE s

OUTREACH_ACTIONS == <<"automated_email", "automated_outreach", "ai_generated_content">>

ALL_ACTIONS == <<"read", "write", "delete", "automated_email",
                 "automated_outreach", "ai_generated_content", "bulk_operations">>

IsCulturalTag(t) == StartsWith(t, "cultural:")

\* the four conditions, in source order
ElderTagRule(contact) ==
    InList("role:elder", contact.tags)
    \/ \E i \in 1..Len(contact.tags) : Contains(Lower(contact.tags[i]), "elder")

ReviewFieldRule(contact) == Truthy(DictGet(contact.customFields, "elder_review_required"))

CulturalTagRule(contact) == SelectSeq(contact.tags, IsCulturalTag) # <<>>

SacredKnowledgeRule(contact) == Truthy(DictGet(contact.customFields, "sacred_knowledge"))

ELDER_TAG_REASON == "Contact is tagged as Elder - cultural protocols apply"
ELDER_TAG_ACTION == "Flag for human review before any communication"
REVIEW_FIELD_REASON == "Contact has elder_review_required flag set"
REVIEW_FIELD_ACTION == "Human approval required before any action"
CULTURAL_TAG_ACTION == "Review cultural context before communication"
SACRED_REASON == "CRITICAL: Sacred knowledge detected - FULL BLOCK"
SACRED_ACTION == "IMMEDIATELY escalate to ACT Cultural Advisor"

CulturalTagReason(contact) ==
    "Contact has cultural tags: " \o Join(SelectSeq(contact.tags, IsCulturalTag))

Flag0 == [requires_review |-> FALSE, reason |-> PyNone,
          blocked_actions |-> <<>>, recommended_action |-> PyNone]

ApplyElderTag(contact, f) ==
    IF ElderTagRule(contact)
    THEN [requires_review |-> TRUE, reason |-> PyStr(ELDER_TAG_REASON),
          blocked_actions |-> f.blocked_actions \o OUTREACH_ACTIONS,
          recommended_action |-> PyStr(ELDER_TAG_ACTION)]
    ELSE f

ApplyReviewField(contact, f) ==
    IF ReviewFieldRule(contact)
    THEN [requires_review |-> TRUE, reason |-> PyStr(REVIEW_FIELD_REASON),
          blocked_actions |-> f.blocked_actions \o OUTREACH_ACTIONS,
          recommended_action |-> PyStr(REVIEW_FIELD_ACTION)]
    ELSE f

\* faulty variant: the cultural-tag rule assigns its action instead of appending it
ApplyCulturalTag_Assigns(contact, f) ==
    IF CulturalTagRule(contact)
    THEN [requires_review |-> TRUE, reason |-> PyStr(CulturalTagReason(contact)),
          blocked_actions |-> <<"bulk_operations">>,
          recommended_action |-> PyStr(CULTURAL_TAG_ACTION)]
    ELSE f

ApplyCulturalTag(contact, f) ==
    IF CulturalTagRule(contact)
    THEN [requires_review |-> TRUE, reason |-> PyStr(CulturalTagReason(contact)),
          blocked_actions |-> Append(f.blocked_actions, "bulk_operations"),
          recommended_action |-> PyStr(CULTURAL_TAG_ACTION)]
    ELSE f

ApplySacredKnowledge(contact, f) ==
    IF SacredKnowledgeRule(contact)
    THEN [requires_review |-> TRUE, reason |-> PyStr(SACRED_REASON),
          blocked_actions |-> f.blocked_actions \o ALL_ACTIONS,
          recommended_action |-> PyStr(SACRED_ACTION)]
    ELSE f

FlagResult(contact, f) ==
    [requires_review |-> f.requires_review,
     reason |-> f.reason,
     actions_blocked |-> f.blocked_actions,
     recommended_action |-> f.recommended_action,
     contact_id |-> contact.id,
     contact_name |-> Strip(contact.firstName \o " " \o contact.lastName)]

\* faulty variant: the cultural-tag rule is evaluated last
check_contact_cultural_protocols_Reordered(contact) ==
    FlagResult(contact,
        ApplyCulturalTag(contact,
            ApplySacredKnowledge(contact,
                ApplyReviewField(contact,
                    ApplyElderTag(contact, Flag0)))))

check_contact_cultural_protocols(contact) ==
    FlagResult(contact,
        ApplySacredKnowledge(contact,
            ApplyCulturalTag(contact,
                ApplyReviewField(contact,
                    ApplyElderTag(contact, Flag0)))))

-----------------------------------------------------------------------------
(* GHLTool: the mock store.  Every operation is an operator from the store *)
(* and the arguments to an outcome: the store after the call, the          *)
(* exception raised (NoError when the call returns) and the records        *)
(* returned.                                                               *)

Outcome(contacts, raised, returned) ==
    [store |-> contacts, raised |-> raised, returned |-> returned]

\* dict.get(key, default) on an argument dict (a function on its keys)
ArgGet(d, key, default) == IF key \in DOMAIN d THEN d[key] ELSE default

\* next((i for i, c in enumerate(mock_contacts) if c['id'] == contact_id), None); 0 for None
FindContact(contacts, contact_id) ==
    IF \E i \in 1..Len(contacts) : contacts[i].id = contact_id
    THEN CHOOSE i \in 1..Len(contacts) :
            /\ contacts[i].id = contact_id
            /\ \A j \in 1..(i - 1) : contacts[j].id # contact_id
    ELSE 0

\* faulty variant: every field is checked and the last violation is the one raised
FirstViolation_LastReported(fields, operation) ==
    LET rejected == {i \in 1..Len(fields) :
                        check_cultural_protocol(fields[i], operation, PyNone) # NoError}
    IN IF rejected = {} THEN NoError
       ELSE check_cultural_protocol(fields[CHOOSE i \in rejected : \A j \in rejected : j <= i],
                                    operation, PyNone)

\* the first exception the loop `for field in keys: check_cultural_protocol(field, operation)` raises
RECURSIVE FirstViolation(_, _)
FirstViolation(fields, operation) ==
    IF fields = <<>> THEN NoError
    ELSE IF check_cultural_protocol(Head(fields), operation, PyNone) # NoError
    THEN check_cultural_protocol(Head(fields), operation, PyNone)
    ELSE FirstViolation(Tail(fields), operation)

\* faulty variant: the BLOCKED keys are taken out of the record returned
get_contact_Redacts(contacts, contact_id) ==
    LET i == FindContact(contacts, contact_id) IN
    IF i = 0
    THEN Outcome(contacts, ValueError(contact_id), <<>>)
    ELSE Outcome(contacts, NoError,
                 <<[contacts[i] EXCEPT !.customFields =
                       [k \in {f \in DOMAIN @ : ~InList(f, BLOCKED_FIELDS)} |-> @[k]]]>>)

\* faulty variant: the flag computed for the contact is kept in its customFields
get_contact_CachesFlag(contacts, contact_id) ==
    LET i == FindContact(contacts, contact_id) IN
    IF i = 0
    THEN Outcome(contacts, ValueError(contact_id), <<>>)
    ELSE LET flagged == IF check_contact_cultural_protocols(contacts[i]).requires_review
                        THEN PyTrue ELSE PyFalse
             after == [contacts EXCEPT ![i].customFields =
                          DictUpdate(@, << <<"requires_review", flagged>> >>)]
         IN Outcome(after, NoError, <<after[i]>>)

get_contact(contacts, contact_id) ==
    LET i == FindContact(contacts, contact_id) IN
    IF i = 0
    THEN Outcome(contacts, ValueError(contact_id), <<>>)
    ELSE Outcome(contacts, NoError, <<contacts[i]>>)

\* faulty variant: an update of an id that is not stored creates the record
ApplyUpdate_Upsert(contacts, contact_id, updates) ==
    LET i == FindContact(contacts, contact_id)
        c == IF i = 0
             THEN [id |-> contact_id, email |-> "", firstName |-> "", lastName |-> "", phone |-> "",
                   tags |-> <<>>, customFields |-> <<>>]
             ELSE contacts[i]
        c1 == IF "tags" \in DOMAIN updates
              THEN [c EXCEPT !.tags = updates["tags"]]
              ELSE c
        c2 == IF "customFields" \in DOMAIN updates
              THEN [c1 EXCEPT !.customFields =
                       DictUpdate(c1.customFields, updates["customFields"])]
              ELSE c1
    IN Outcome(IF i = 0 THEN Append(contacts, c2) ELSE [contacts EXCEPT ![i] = c2],
               NoError, <<c2>>)

\* faulty variant: customFields is replaced by the dict given, not merged
ApplyUpdate_ReplacesFields(contacts, contact_id, updates) ==
    LET g == get_contact(contacts, contact_id) IN
    IF g.raised # NoError THEN g
    ELSE LET i == FindContact(contacts, contact_id)
             c == contacts[i]
             c1 == IF "tags" \in DOMAIN updates
                   THEN [c EXCEPT !.tags = updates["tags"]]
                   ELSE c
             c2 == IF "customFields" \in DOMAIN updates
                   THEN [c1 EXCEPT !.customFields =
                            DictUpdate(<<>>, updates["customFields"])]
                   ELSE c1
             after == [contacts EXCEPT ![i] = c2]
         IN Outcome(after, NoError, <<c2>>)

\* the body of update_contact after the field checks
ApplyUpdate(contacts, contact_id, updates) ==
    LET g == get_contact(contacts, contact_id) IN
    IF g.raised # NoError THEN g
    ELSE LET i == FindContact(contacts, contact_id)
             c == contacts[i]
             c1 == IF "tags" \in DOMAIN updates
                   THEN [c EXCEPT !.tags = updates["tags"]]
                   ELSE c
             c2 == IF "customFields" \in DOMAIN updates
                   THEN [c1 EXCEPT !.customFields =
                            DictUpdate(c1.customFields, updates["customFields"])]
                   ELSE c1
             after == [contacts EXCEPT ![i] = c2]
         IN Outcome(after, NoError, <<c2>>)

\* faulty variant: the record is updated first and the fields are checked afterwards
update_contact_CheckAfter(contacts, contact_id, updates) ==
    LET v == FirstViolation(Keys(ArgGet(updates, "customFields", <<>>)), "write")
        a == ApplyUpdate(contacts, contact_id, updates)
    IN IF a.raised # NoError THEN a
       ELSE IF v # NoError THEN Outcome(a.store, v, <<>>)
       ELSE a

\* faulty variant: only the first key of customFields is checked
update_contact_FirstKeyOnly(contacts, contact_id, updates) ==
    LET keys == Keys(ArgGet(updates, "customFields", <<>>))
        v == FirstViolation(IF keys = <<>> THEN <<>> ELSE <<Head(keys)>>, "write")
    IN IF v # NoError
       THEN Outcome(contacts, v, <<>>)
       ELSE ApplyUpdate(contacts, contact_id, updates)

\* faulty variant: a contact that requires review is not updated by automation
update_contact_ReviewGate(contacts, contact_id, updates) ==
    LET v == FirstViolation(Keys(ArgGet(updates, "customFields", <<>>)), "write")
        g == get_contact(contacts, contact_id)
    IN IF v # NoError
       THEN Outcome(contacts, v, <<>>)
       ELSE IF g.raised = NoError
               /\ check_contact_cultural_protocols(g.returned[1]).requires_review
       THEN Outcome(contacts, PermissionError("", "write", "REVIEW"), <<>>)
       ELSE ApplyUpdate(contacts, contact_id, updates)

\* faulty variant: the tags written are checked like field names
update_contact_GatesTags(contacts, contact_id, updates) ==
    LET v == FirstViolation(Keys(ArgGet(updates, "customFields", <<>>)), "write")
        t == FirstViolation(ArgGet(updates, "tags", <<>>), "write")
    IN IF v # NoError
       THEN Outcome(contacts, v, <<>>)
       ELSE IF t # NoError
       THEN Outcome(contacts, t, <<>>)
       ELSE ApplyUpdate(contacts, contact_id, updates)

\* faulty variant: the contact is looked up before the fields are checked
update_contact_LookupFirst(contacts, contact_id, updates) ==
    LET g == get_contact(contacts, contact_id)
        v == FirstViolation(Keys(ArgGet(updates, "customFields", <<>>)), "write")
    IN IF g.raised # NoError THEN g
       ELSE IF v # NoError
       THEN Outcome(contacts, v, <<>>)
       ELSE ApplyUpdate(contacts, contact_id, updates)

update_contact(contacts, contact_id, updates) ==
    LET v == FirstViolation(Keys(ArgGet(updates, "customFields", <<>>)), "write")
    IN IF v # NoError
       THEN Outcome(contacts, v, <<>>)
       ELSE ApplyUpdate(contacts, contact_id, updates)

\* contact['tags'] after an in-place list operation of add_tag / remove_tag
WithTags(contacts, i, tags) == [contacts EXCEPT ![i].tags = tags]

\* faulty variant: the membership test is dropped
add_tag_NoMembershipTest(contacts, contact_id, tag) ==
    LET g == get_contact(contacts, contact_id) IN
    IF g.raised # NoError THEN g
    ELSE LET i == FindContact(contacts, contact_id)
             tags == Append(contacts[i].tags, tag)
         IN update_contact(WithTags(contacts, i, tags), contact_id, "tags" :> tags)

add_tag(contacts, contact_id, tag) ==
    LET g == get_contact(contacts, contact_id) IN
    IF g.raised # NoError THEN g
    ELSE LET i == FindContact(contacts, contact_id) IN
         IF ~InList(tag, contacts[i].tags)
         THEN LET tags == Append(contacts[i].tags, tag)
              IN update_contact(WithTags(contacts, i, tags), contact_id, "tags" :> tags)
         ELSE g

\* list.remove(x): the first occurrence only
RECURSIVE ListRemove(_, _)
ListRemove(lst, x) ==
    IF lst = <<>> THEN <<>>
    ELSE IF Head(lst) = x THEN Tail(lst)
    ELSE <<Head(lst)>> \o ListRemove(Tail(lst), x)

\* faulty variant: removing a tag from a contact that is not stored is a no-op
remove_tag_IgnoresMissing(contacts, contact_id, tag) ==
    LET i == FindContact(contacts, contact_id) IN
    IF i = 0 THEN Outcome(contacts, NoError, <<>>)
    ELSE IF InList(tag, contacts[i].tags)
         THEN LET tags == ListRemove(contacts[i].tags, tag)
              IN update_contact(WithTags(contacts, i, tags), contact_id, "tags" :> tags)
         ELSE Outcome(contacts, NoError, <<contacts[i]>>)

remove_tag(contacts, contact_id, tag) ==
    LET g == get_contact(contacts, contact_id) IN
    IF g.raised # NoError THEN g
    ELSE LET i == FindContact(contacts, contact_id) IN
         IF InList(tag, contacts[i].tags)
         THEN LET tags == ListRemove(contacts[i].tags, tag)
              IN update_contact(WithTags(contacts, i, tags), contact_id, "tags" :> tags)
         ELSE g

-----------------------------------------------------------------------------
(* GHLTool.search_contacts *)

TypeError(field) == [type |-> "TypeError", field |-> field, operation |-> "", tier |-> ""]

\* a == b on Python values
PyEq(a, b) == a[1] = b[1] /\ a[2] = b[2]

\* a >= b is defined between two ints (the $gte arguments drawn here are ints);
\* int >= str and str >= int raise TypeError
Comparable(a, b) == a[1] = "int" /\ b[1] = "int"

\* key in condition, condition[key]
HasKey(items, key) == \E i \in 1..Len(items) : items[i][1] = key
ItemGet(items, key) == items[CHOOSE i \in 1..Len(items) : items[i][1] = key][2]

\* c.get('customFields', {}).get(field, default)
FieldOr(c, field, default) ==
    IF field \in DOMAIN c.customFields THEN c.customFields[field] ELSE default

\* one pass of the loop over customFieldFilters: the comprehension selected by the
\* if / elif chain; a condition with none of the three keys filters nothing
MatchesCondition(c, field, condition) ==
    IF HasKey(condition, "$gte")
    THEN FieldOr(c, field, PyInt(0))[2] >= ItemGet(condition, "$gte")[2]
    ELSE IF HasKey(condition, "$eq")
    THEN PyEq(FieldOr(c, field, PyNone), ItemGet(condition, "$eq"))
    ELSE IF HasKey(condition, "$exists")
    THEN PyEq(PyInt(IF field \in DOMAIN c.customFields THEN 1 ELSE 0),
              ItemGet(condition, "$exists"))
    ELSE TRUE

ConditionRaises(results, field, condition) ==
    /\ HasKey(condition, "$gte")
    /\ \E i \in 1..Len(results) :
          ~Comparable(FieldOr(results[i], field, PyInt(0)), ItemGet(condition, "$gte"))

\* the loop `for field, condition in filters['customFieldFilters'].items()`;
\* returns <<exception, results>>
RECURSIVE FilterByFields(_, _)
FilterByFields(results, items) ==
    IF items = <<>> THEN <<NoError, results>>
    ELSE LET field == Head(items)[1]
             condition == Head(items)[2]
         IN IF ConditionRaises(results, field, condition)
            THEN <<TypeError(field), <<>>>>
            ELSE FilterByFields(
                    SelectSeq(results, LAMBDA c : MatchesCondition(c, field, condition)),
                    Tail(items))

\* any(tag in c.get('tags', []) for tag in filters['tags'])
AnyTagIn(c, tags) == \E i \in 1..Len(tags) : InList(tags[i], c.tags)

FilterByTags(results, filters) ==
    IF "tags" \in DOMAIN filters /\ filters["tags"] # <<>>
    THEN SelectSeq(results, LAMBDA c : AnyTagIn(c, filters["tags"]))
    ELSE results

\* the mock search after the field checks
RunSearch(contacts, filters) ==
    LET byTags == FilterByTags(contacts, filters)
        r == IF "customFieldFilters" \in DOMAIN filters
             THEN FilterByFields(byTags, filters["customFieldFilters"])
             ELSE <<NoError, byTags>>
    IN Outcome(contacts, r[1], r[2])

\* faulty variant: the filter keys are not checked before the query
search_contacts_NoCheck(contacts, filters) == RunSearch(contacts, filters)

search_contacts(contacts, filters) ==
    LET v == FirstViolation(Keys(ArgGet(filters, "customFieldFilters", <<>>)), "read")
    IN IF v # NoError
       THEN Outcome(contacts, v, <<>>)
       ELSE RunSearch(contacts, filters)

-----------------------------------------------------------------------------
(* The store and the calls made against it *)

\* longest tag list add_tag may grow a contact's tags to (the lists reached from the
\* inputs below have at most three entries)
MaxTags == 3

CONTACT_001 ==
    [id |-> "contact_001", email |-> "jane.smith@example.com",
     firstName |-> "Jane", lastName |-> "Smith", phone |-> "+61412345678",
     tags |-> <<"the-harvest">>,
     customFields |-> [supabase_user_id |-> PyStr("uuid-123-storyteller"),
                       stories_count |-> PyInt(5)]]

CONTACT_003 ==
    [id |-> "contact_003", email |-> "elder.mary@example.com",
     firstName |-> "Mary", lastName |-> "Johnson", phone |-> "+61434567890",
     tags |-> <<"role:elder">>,
     customFields |-> [cultural_protocols |-> PyStr("Kabi Kabi Elder"),
                       elder_review_required |-> PyTrue]]

\* _load_mock_data, two of its five contacts with one tag each
MockData == <<CONTACT_001, CONTACT_003>>

\* ids a caller passes: the stored ones and one that is not stored
CallerIds == {"contact_001", "contact_003", "contact_999"}

TagUniverse == {"role:elder", "the-harvest"}

ListsUpTo2(S) == {<<>>} \cup {<<a>> : a \in S} \cup {<<a, b>> : a \in S, b \in S}

\* argument dicts of at most two items with distinct keys, in both orders
DictsUpTo2(Items) ==
    {<<>>} \cup {<<a>> : a \in Items}
    \cup {p \in {<<a, b>> : a \in Items, b \in Items} : p[1][1] # p[2][1]}

\* the dicts with any subset of the keys 'tags' / 'customFields' (or 'customFieldFilters')
ArgDicts(key, TagArgs, FieldArgs) ==
    {<<>>}
    \cup {"tags" :> t : t \in TagArgs}
    \cup {key :> f : f \in FieldArgs}
    \cup {("tags" :> t) @@ (key :> f) : t \in TagArgs, f \in FieldArgs}

\* key / value pairs a caller writes: an open, a blocked and a read-only field
FieldItems == {<<"stories_count", PyInt(7)>>,
               <<"elder_consent", PyTrue>>,
               <<"cultural_protocols", PyStr("new text")>>}

FilterFields == {"stories_count", "elder_consent", "cultural_protocols"}

Conditions == {<< <<"$gte", PyInt(5)>> >>, << <<"$eq", PyInt(7)>> >>,
               << <<"$exists", PyTrue>> >>, << <<"$lte", PyInt(5)>> >>}

FilterItems == {<<f, c>> : f \in FilterFields, c \in Conditions}

ExistsItems == {<<f, << <<"$exists", PyTrue>> >> >> : f \in FilterFields}

FieldFilterInputs ==
    {<<a>> : a \in FilterItems} \cup {f \in DictsUpTo2(ExistsItems) : Len(f) # 1}

\* Inputs of the field-gating specification: every combination of the field
\* items, with few tag lists
ElderTag == {"role:elder"}

UpdateInputs == ArgDicts("customFields", ListsUpTo2(ElderTag) \ {<<>>}, DictsUpTo2(FieldItems))

\* filters = None is replaced by {} before anything else: both are <<>> here
SearchInputs == ArgDicts("customFieldFilters", {<<"role:elder">>}, FieldFilterInputs)

\* Inputs of the violation-order specification: two blocked fields, a
\* read-only field and an open field, named alone or in pairs in both orders
OrderFieldItems == {<<"elder_consent", PyTrue>>,
                    <<"sacred_knowledge", PyStr("story")>>,
                    <<"cultural_protocols", PyStr("new text")>>,
                    <<"stories_count", PyInt(7)>>}

OrderFilterItems == {<<item[1], << <<"$exists", PyTrue>> >> >> : item \in OrderFieldItems}

OrderUpdateInputs == ArgDicts("customFields", {}, DictsUpTo2(OrderFieldItems))

OrderSearchInputs == ArgDicts("customFieldFilters", {}, DictsUpTo2(OrderFilterItems))

\* Inputs of the tag specification: every tag list, with few field items
TagUpdateInputs ==
    ArgDicts("customFields", ListsUpTo2(TagUniverse),
             {<< <<"stories_count", PyInt(7)>> >>})

TagSearchInputs ==
    ArgDicts("customFieldFilters", {<<a>> : a \in TagUniverse},
             {<< <<"stories_count", << <<"$gte", PyInt(5)>> >> >> >>})

\* arguments of a direct check_cultural_protocol call
CheckedFields == {"elder_consent", "sacred_knowledge", "cultural_protocols",
                  "supabase_user_id", "elder_review_required",
                  "stories_count", "Elder_Consent"}

Operations == {"read", "write", "delete"}

Contexts == {PyNone, PyStr("admin_override")}

NoProbe == [fn |-> "", args |-> <<>>, result |-> <<>>]

\* no task has been created on the event loop
NoLoop == [tasks |-> <<>>, running |-> 0, lists |-> <<>>, bound |-> 0, store0 |-> <<>>]

\* CostTracker.__init__ (config/production.py)
NoTracker == [processed_message_ids |-> {}, agent_costs |-> <<>>,
              total_input_tokens |-> 0, total_output_tokens |-> 0]

NoCall == [op |-> "", contact_id |-> "", tag |-> "", args |-> <<>>,
           raised |-> NoError, returned |-> <<>>]

Call(op, contact_id, tag, args, out) ==
    [op |-> op, contact_id |-> contact_id, tag |-> tag, args |-> args,
     raised |-> out.raised, returned |-> out.returned]

TagsWithinBound(contacts) == \A i \in 1..Len(contacts) : Len(contacts[i].tags) <= MaxTags

Init ==
    /\ mock_contacts = MockData
    /\ last = NoCall
    /\ probe = NoProbe
    /\ loop = NoLoop
    /\ tracker = NoTracker

Do_check_cultural_protocol ==
    \E field_name \in CheckedFields, operation \in Operations, context \in Contexts :
        /\ last' = Call("check_cultural_protocol", "", "", <<field_name, operation, context>>,
                        Outcome(mock_contacts,
                                check_cultural_protocol(field_name, operation, context), <<>>))
        /\ UNCHANGED <<mock_contacts, probe, loop, tracker>>

Do_get_contact ==
    \E id \in CallerIds :
        \E out \in {get_contact(mock_contacts, id)} :
        /\ mock_contacts' = out.store
        /\ last' = Call("get_contact", id, "", <<>>, out)
        /\ UNCHANGED <<probe, loop, tracker>>

Do_search_contacts(Inputs) ==
    \E filters \in Inputs :
        \E out \in {search_contacts(mock_contacts, filters)} :
        /\ mock_contacts' = out.store
        /\ last' = Call("search_contacts", "", "", filters, out)
        /\ UNCHANGED <<probe, loop, tracker>>

Do_update_contact(Inputs) ==
    \E id \in CallerIds, updates \in Inputs :
        \E out \in {update_contact(mock_contacts, id, updates)} :
        /\ mock_contacts' = out.store
        /\ last' = Call("update_contact", id, "", updates, out)
        /\ UNCHANGED <<probe, loop, tracker>>

Do_add_tag(Tags) ==
    \E id \in CallerIds, tag \in Tags :
        \E out \in {add_tag(mock_contacts, id, tag)} :
        /\ TagsWithinBound(out.store)
        /\ mock_contacts' = out.store
        /\ last' = Call("add_tag", id, tag, <<>>, out)
        /\ UNCHANGED <<probe, loop, tracker>>

Do_remove_tag(Tags) ==
    \E id \in CallerIds, tag \in Tags :
        \E out \in {remove_tag(mock_contacts, id, tag)} :
        /\ mock_contacts' = out.store
        /\ last' = Call("remove_tag", id, tag, <<>>, out)
        /\ UNCHANGED <<probe, loop, tracker>>

\* The field-gating specification: the five operations and the direct policy
\* check, called with every combination of open, blocked and read-only fields
Next ==
    \/ Do_check_cultural_protocol
    \/ Do_get_contact
    \/ Do_search_contacts(SearchInputs)
    \/ Do_update_contact(UpdateInputs)
    \/ Do_add_tag(ElderTag)
    \/ Do_remove_tag(ElderTag)

Spec == Init /\ [][Next]_vars

\* The violation-order specification: updates and searches that name several
\* rejected fields
NextOrder ==
    \/ Do_update_contact(OrderUpdateInputs)
    \/ Do_search_contacts(OrderSearchInputs)

SpecOrder == Init /\ [][NextOrder]_vars

\* The tag specification: the five operations called with every tag list
NextTags ==
    \/ Do_get_contact
    \/ Do_search_contacts(TagSearchInputs)
    \/ Do_update_contact(TagUpdateInputs)
    \/ Do_add_tag(TagUniverse)
    \/ Do_remove_tag(TagUniverse)

SpecTags == Init /\ [][NextTags]_vars

\* The out-of-band specification: contact_003 starts with a blocked key that was
\* put into the record outside the tool
OutOfBandFields == {"sacred_knowledge" :> PyTrue,
                    "sacred_knowledge" :> PyFalse,
                    "elder_consent" :> PyStr("granted")}

OutOfBandData(extra) ==
    <<CONTACT_001, [CONTACT_003 EXCEPT !.customFields = extra @@ CONTACT_003.customFields]>>

OutOfBandUpdateInputs ==
    ArgDicts("customFields", {<<"role:elder">>, <<>>},
             {<<a>> : a \in FieldItems \cup {<<"sacred_knowledge", PyFalse>>}})

OutOfBandSearchInputs ==
    ArgDicts("customFieldFilters", {<<"role:elder">>},
             {<< <<f, << <<"$exists", PyTrue>> >> >> >> :
                 f \in FilterFields \cup {"sacred_knowledge"}})

InitOutOfBand ==
    /\ mock_contacts \in {OutOfBandData(extra) : extra \in OutOfBandFields}
    /\ last = NoCall
    /\ probe = NoProbe
    /\ loop = NoLoop
    /\ tracker = NoTracker

NextOutOfBand ==
    \/ Do_get_contact
    \/ Do_search_contacts(OutOfBandSearchInputs)
    \/ Do_update_contact(OutOfBandUpdateInputs)
    \/ Do_add_tag(ElderTag)
    \/ Do_remove_tag(ElderTag)

SpecOutOfBand == InitOutOfBand /\ [][NextOutOfBand]_vars

\* The field-name tag specification: the tags written are the names of a
\* BLOCKED and of a READ_ONLY field
FieldNameTags == {"elder_consent", "cultural_protocols"}

FieldNameTagUpdateInputs ==
    ArgDicts("customFields", ListsUpTo2(FieldNameTags),
             {<< <<"stories_count", PyInt(7)>> >>})

NextFieldNameTags ==
    \/ Do_get_contact
    \/ Do_update_contact(FieldNameTagUpdateInputs)
    \/ Do_add_tag(FieldNameTags)
    \/ Do_remove_tag(FieldNameTags)

SpecFieldNameTags == Init /\ [][NextFieldNameTags]_vars

-----------------------------------------------------------------------------
(* The classifier specification: check_contact_cultural_protocols applied  *)
(* to a contact dict drawn from the tag lists and field values below       *)

ClassifierTags == {"role:elder", "Elder Council", "cultural:kabi-kabi",
                   "cultural:yuggera", "the-harvest", "role:welder"}

ReviewFieldValues == {<<>>, "elder_review_required" :> PyTrue,
                      "elder_review_required" :> PyFalse}

SacredFieldValues == {<<>>, "sacred_knowledge" :> PyTrue, "sacred_knowledge" :> PyFalse,
                      "sacred_knowledge" :> PyStr("")}

ConsentFieldValues == {<<>>, "elder_consent" :> PyStr("granted")}

ClassifierInputs ==
    {[id |-> "contact_003", email |-> "elder.mary@example.com",
      firstName |-> "Mary", lastName |-> "Johnson", phone |-> "+61434567890",
      tags |-> t, customFields |-> r @@ s @@ c] :
        t \in ListsUpTo2(ClassifierTags), r \in ReviewFieldValues,
        s \in SacredFieldValues, c \in ConsentFieldValues}

InitClassifier ==
    /\ mock_contacts = MockData
    /\ last = NoCall
    /\ probe \in {[fn |-> "check_contact_cultural_protocols", args |-> <<c>>, result |-> <<>>] :
                     c \in ClassifierInputs}
    /\ loop = NoLoop
    /\ tracker = NoTracker

Do_check_contact_cultural_protocols ==
    /\ probe.fn = "check_contact_cultural_protocols"
    /\ probe.result = <<>>
    /\ probe' = [probe EXCEPT !.result = <<check_contact_cultural_protocols(probe.args[1])>>]
    /\ UNCHANGED <<mock_contacts, last, loop, tracker>>

NextClassifier == Do_check_contact_cultural_protocols

SpecClassifier == InitClassifier /\ [][NextClassifier]_vars

-----------------------------------------------------------------------------
(* The records specification: the store is filled outside the tool, so     *)
(* contact_003 is any record of ClassifierInputs, and it is read with      *)
(* get_contact                                                             *)

InitRecords ==
    /\ mock_contacts \in {<<CONTACT_001, c>> : c \in ClassifierInputs}
    /\ last = NoCall
    /\ probe = NoProbe
    /\ loop = NoLoop
    /\ tracker = NoTracker

NextRecords == Do_get_contact

SpecRecords == InitRecords /\ [][NextRecords]_vars

\* The reads specification: the three reads, against the same stores.  A caller
\* that holds a stored record (get_contact and search_contacts return the
\* stored dicts) passes it to check_contact_cultural_protocols, which assigns
\* no key of the dict it is given.
check_stored_contact(contacts, i) ==
    Outcome(contacts, NoError, <<check_contact_cultural_protocols(contacts[i])>>)

ReadSearchInputs ==
    ArgDicts("customFieldFilters", {<<"role:elder">>},
             {<< <<"elder_consent", << <<"$exists", PyTrue>> >> >> >>,
              << <<"elder_review_required", << <<"$exists", PyTrue>> >> >> >>})

Do_check_stored_contact ==
    \E i \in 1..Len(mock_contacts) :
        \E out \in {check_stored_contact(mock_contacts, i)} :
        /\ mock_contacts' = out.store
        /\ last' = Call("check_contact_cultural_protocols", mock_contacts[i].id, "", <<>>, out)
        /\ UNCHANGED <<probe, loop, tracker>>

NextReads ==
    \/ Do_get_contact
    \/ Do_search_contacts(ReadSearchInputs)
    \/ Do_check_stored_contact

SpecReads == InitRecords /\ [][NextReads]_vars

-----------------------------------------------------------------------------
(* Two write calls issued as asyncio tasks against one contact id.  A task  *)
(* runs until a coroutine it awaits suspends; update_contact, add_tag and   *)
(* remove_tag await only get_contact and each other, so a task can give up *)
(* the event loop only inside get_contact.  tags, the local of add_tag and *)
(* remove_tag, and updates['tags'] are references to list objects:         *)
(* loop.lists holds the objects and loop.bound the one contact['tags']     *)
(* refers to.                                                              *)

\* faulty variant: get_contact awaits a request to the CRM
get_contact_suspends_AwaitsRequest == TRUE

\* the mock branch of get_contact has no await in its body: awaiting it runs
\* it to its return without giving control back to the event loop
get_contact_suspends == FALSE

ConcurrentFieldItems == {<<"stories_count", PyInt(7)>>, <<"stories_count", PyInt(9)>>,
                         <<"elder_consent", PyTrue>>}

ConcurrentUpdateInputs ==
    ArgDicts("customFields", ListsUpTo2(TagUniverse), {<<a>> : a \in ConcurrentFieldItems})

\* the write calls a caller can issue against one id
WriteCalls(id) ==
    {[op |-> "update_contact", contact_id |-> id, tag |-> "", args |-> u] :
        u \in ConcurrentUpdateInputs}
    \cup {[op |-> o, contact_id |-> id, tag |-> t, args |-> <<>>] :
            o \in {"add_tag", "remove_tag"}, t \in TagUniverse}

\* a call run from start to end on its own
RunCall(contacts, call) ==
    CASE call.op = "update_contact" -> update_contact(contacts, call.contact_id, call.args)
      [] call.op = "add_tag" -> add_tag(contacts, call.contact_id, call.tag)
      [] call.op = "remove_tag" -> remove_tag(contacts, call.contact_id, call.tag)

NewTask(call) == [call |-> call, pc |-> "start", tags |-> 0]

\* list object 1 is the list the contact holds at the start, object t + 1 the
\* list task t passes as updates['tags']
InitLists(contacts, calls) ==
    <<IF FindContact(contacts, calls[1].contact_id) = 0 THEN <<>>
      ELSE contacts[FindContact(contacts, calls[1].contact_id)].tags,
      ArgGet(calls[1].args, "tags", <<>>),
      ArgGet(calls[2].args, "tags", <<>>)>>

InitConcurrent ==
    /\ mock_contacts = MockData
    /\ last = NoCall
    /\ probe = NoProbe
    /\ tracker = NoTracker
    /\ \E id \in CallerIds :
          \E a \in WriteCalls(id), b \in WriteCalls(id) :
              loop = [tasks |-> <<NewTask(a), NewTask(b)>>, running |-> 0,
                      lists |-> InitLists(MockData, <<a, b>>), bound |-> 1,
                      store0 |-> MockData]

\* the event loop gives task t a step when no other task is in the middle of one
CanRun(t) == loop.running \in {0, t}

\* who holds the event loop after task t reached an await of get_contact
AfterAwait(t) == IF get_contact_suspends THEN 0 ELSE t

\* task t ends: its call returns or raises
Finish(t, contacts, lists, bound, raised, returned) ==
    /\ mock_contacts' = contacts
    /\ loop' = [loop EXCEPT !.tasks[t].pc = "done", !.running = 0,
                            !.lists = lists, !.bound = bound]
    /\ last' = Call(loop.tasks[t].call.op, loop.tasks[t].call.contact_id,
                    loop.tasks[t].call.tag, loop.tasks[t].call.args,
                    Outcome(contacts, raised, returned))
    /\ UNCHANGED <<probe, tracker>>

\* the first step of a task: update_contact checks the keys of customFields and
\* awaits get_contact; add_tag and remove_tag await get_contact at once
Start(t) ==
    /\ CanRun(t)
    /\ loop.tasks[t].pc = "start"
    /\ LET call == loop.tasks[t].call
           v == IF call.op = "update_contact"
                THEN FirstViolation(Keys(ArgGet(call.args, "customFields", <<>>)), "write")
                ELSE NoError
       IN IF v # NoError
          THEN Finish(t, mock_contacts, loop.lists, loop.bound, v, <<>>)
          ELSE /\ loop' = [loop EXCEPT !.tasks[t].pc = call.op, !.running = AfterAwait(t)]
               /\ UNCHANGED <<mock_contacts, last, probe, tracker>>

\* update_contact after its get_contact: contact['tags'] = updates['tags'] binds
\* the caller's list object, customFields.update writes the items
Resume_update_contact(t) ==
    /\ CanRun(t)
    /\ loop.tasks[t].pc = "update_contact"
    /\ LET call == loop.tasks[t].call
           g == get_contact(mock_contacts, call.contact_id)
           i == FindContact(mock_contacts, call.contact_id)
           bound == IF "tags" \in DOMAIN call.args THEN t + 1 ELSE loop.bound
           c1 == [mock_contacts[i] EXCEPT !.tags = loop.lists[bound]]
           c2 == IF "customFields" \in DOMAIN call.args
                 THEN [c1 EXCEPT !.customFields =
                          DictUpdate(c1.customFields, call.args["customFields"])]
                 ELSE c1
       IN IF g.raised # NoError
          THEN Finish(t, mock_contacts, loop.lists, loop.bound, g.raised, <<>>)
          ELSE Finish(t, [mock_contacts EXCEPT ![i] = c2], loop.lists, bound,
                      NoError, <<c2>>)

\* add_tag after its get_contact: the membership test, tags.append(tag) on the
\* list object the contact holds, then the await inside update_contact
Resume_add_tag(t) ==
    /\ CanRun(t)
    /\ loop.tasks[t].pc = "add_tag"
    /\ LET call == loop.tasks[t].call
           g == get_contact(mock_contacts, call.contact_id)
           i == FindContact(mock_contacts, call.contact_id)
           lists == [loop.lists EXCEPT ![loop.bound] = Append(@, call.tag)]
       IN IF g.raised # NoError
          THEN Finish(t, mock_contacts, loop.lists, loop.bound, g.raised, <<>>)
          ELSE IF InList(call.tag, mock_contacts[i].tags)
          THEN Finish(t, mock_contacts, loop.lists, loop.bound, NoError, g.returned)
          ELSE /\ mock_contacts' = WithTags(mock_contacts, i, lists[loop.bound])
               /\ loop' = [loop EXCEPT !.tasks[t].pc = "tags_update",
                                       !.tasks[t].tags = loop.bound,
                                       !.lists = lists,
                                       !.running = AfterAwait(t)]
               /\ UNCHANGED <<last, probe, tracker>>

\* remove_tag after its get_contact: the membership test, tags.remove(tag) on
\* the list object the contact holds, then the await inside update_contact
Resume_remove_tag(t) ==
    /\ CanRun(t)
    /\ loop.tasks[t].pc = "remove_tag"
    /\ LET call == loop.tasks[t].call
           g == get_contact(mock_contacts, call.contact_id)
           i == FindContact(mock_contacts, call.contact_id)
           lists == [loop.lists EXCEPT ![loop.bound] = ListRemove(@, call.tag)]
       IN IF g.raised # NoError
          THEN Finish(t, mock_contacts, loop.lists, loop.bound, g.raised, <<>>)
          ELSE IF ~InList(call.tag, mock_contacts[i].tags)
          THEN Finish(t, mock_contacts, loop.lists, loop.bound, NoError, g.returned)
          ELSE /\ mock_contacts' = WithTags(mock_contacts, i, lists[loop.bound])
               /\ loop' = [loop EXCEPT !.tasks[t].pc = "tags_update",
                                       !.tasks[t].tags = loop.bound,
                                       !.lists = lists,
                                       !.running = AfterAwait(t)]
               /\ UNCHANGED <<last, probe, tracker>>

\* update_contact(contact_id, {'tags': tags}) of add_tag and remove_tag after its
\* get_contact: contact['tags'] = tags binds the list object of the local
Resume_tags_update(t) ==
    /\ CanRun(t)
    /\ loop.tasks[t].pc = "tags_update"
    /\ LET call == loop.tasks[t].call
           g == get_contact(mock_contacts, call.contact_id)
           i == FindContact(mock_contacts, call.contact_id)
           bound == loop.tasks[t].tags
           c1 == [mock_contacts[i] EXCEPT !.tags = loop.lists[bound]]
       IN IF g.raised # NoError
          THEN Finish(t, mock_contacts, loop.lists, loop.bound, g.raised, <<>>)
          ELSE Finish(t, [mock_contacts EXCEPT ![i] = c1], loop.lists, bound,
                      NoError, <<c1>>)

NextConcurrent ==
    \E t \in 1..2 :
        \/ Start(t)
        \/ Resume_update_contact(t)
        \/ Resume_add_tag(t)
        \/ Resume_remove_tag(t)
        \/ Resume_tags_update(t)

SpecConcurrent == InitConcurrent /\ [][NextConcurrent]_vars

-----------------------------------------------------------------------------
(* CleanupAgent (agents/cleanup_agent.py).  The agent works on the dicts   *)
(* search_contacts returns, which are the dict objects of the store: a     *)
(* write to one of them is a write to the stored record.  The check-mark   *)
(* and warning characters that open the reports are left out.              *)

\* s.replace(old, new) for single characters
RECURSIVE ReplaceChar(_, _, _)
ReplaceChar(s, old, new) ==
    IF Len(s) = 0 THEN ""
    ELSE (IF SubSeq(s, 1, 1) = old THEN new ELSE SubSeq(s, 1, 1))
         \o ReplaceChar(SubSeq(s, 2, Len(s)), old, new)

\* while '--' in tag: tag = tag.replace('--', '-'): every run of hyphens becomes one
RECURSIVE CollapseHyphens(_)
CollapseHyphens(s) ==
    IF Len(s) < 2 THEN s
    ELSE IF SubSeq(s, 1, 2) = "--" THEN CollapseHyphens(SubSeq(s, 2, Len(s)))
    ELSE SubSeq(s, 1, 1) \o CollapseHyphens(SubSeq(s, 2, Len(s)))

\* s.strip(ch)
RECURSIVE StripChar(_, _)
StripChar(s, ch) ==
    IF Len(s) = 0 THEN s
    ELSE IF SubSeq(s, 1, 1) = ch THEN StripChar(SubSeq(s, 2, Len(s)), ch)
    ELSE IF SubSeq(s, Len(s), Len(s)) = ch THEN StripChar(SubSeq(s, 1, Len(s) - 1), ch)
    ELSE s

\* the body of the loop of normalize_tags for one tag
NormalizeTag(tag) ==
    StripChar(CollapseHyphens(ReplaceChar(Strip(Lower(tag)), " ", "-")), "-")

RECURSIVE NormalizeLoop(_, _)
NormalizeLoop(tags, normalized) ==
    IF tags = <<>> THEN normalized
    ELSE LET tag == NormalizeTag(Head(tags))
         IN NormalizeLoop(Tail(tags),
                          IF tag # "" /\ ~InList(tag, normalized)
                          THEN Append(normalized, tag)
                          ELSE normalized)

normalize_tags(contact) == NormalizeLoop(contact.tags, <<>>)

\* defaults of fix_missing_fields, in dict order
DEFAULTS == << <<"volunteer_hours_total", PyInt(0)>>,
               <<"stories_count", PyInt(0)>>,
               <<"lifetime_donation_value", PyInt(0)>>,
               <<"volunteer_orientation_completed", PyFalse>>,
               <<"elder_review_required", PyFalse>>,
               <<"ndis_participant", PyFalse>>,
               <<"pilot_interest", PyFalse>> >>

\* the defaults the loop assigns: field not in custom_fields or custom_fields[field] is None
MissingDefaults(custom_fields) ==
    SelectSeq(DEFAULTS, LAMBDA d : \/ d[1] \notin DOMAIN custom_fields
                                  \/ custom_fields[d[1]][1] = "NoneType")

\* custom_fields is the customFields dict of the contact passed in, which is
\* filled in place; the contact passed in is returned
fix_missing_fields(contact) ==
    [contact EXCEPT !.customFields = DictUpdate(@, MissingDefaults(@))]

\* email.lower().strip() if email else ''
normalize_email(email) == IF email = "" THEN "" ELSE Strip(Lower(email))

IsDigit(c) == c \in {"0", "1", "2", "3", "4", "5", "6", "7", "8", "9"}

\* ''.join(c for c in phone if c.isdigit())
RECURSIVE Digits(_)
Digits(s) ==
    IF Len(s) = 0 THEN ""
    ELSE (IF IsDigit(SubSeq(s, 1, 1)) THEN SubSeq(s, 1, 1) ELSE "")
         \o Digits(SubSeq(s, 2, Len(s)))

normalize_phone(phone) ==
    IF phone = "" THEN ""
    ELSE LET all == Digits(phone)
             digits == IF StartsWith(all, "61") THEN SubSeq(all, 3, Len(all))
                       ELSE IF StartsWith(all, "0") THEN SubSeq(all, 2, Len(all))
                       ELSE all
         IN IF Len(digits) = 9
            THEN IF StartsWith(digits, "4")
                 THEN "+61 " \o SubSeq(digits, 1, 3) \o " " \o SubSeq(digits, 4, 6)
                      \o " " \o SubSeq(digits, 7, 9)
                 ELSE "+61 " \o SubSeq(digits, 1, 1) \o " " \o SubSeq(digits, 2, 5)
                      \o " " \o SubSeq(digits, 6, 9)
            ELSE phone

\* find_duplicates: the emails, lowered and stripped, in order of first
\* appearance, that more than one contact has
EmailKey(c) == Strip(Lower(c.email))

WithEmail(contacts, email) == SelectSeq(contacts, LAMBDA c : EmailKey(c) = email)

RECURSIVE DuplicateEmails(_, _, _)
DuplicateEmails(contacts, i, seen) ==
    IF i > Len(contacts) THEN <<>>
    ELSE LET email == EmailKey(contacts[i])
         IN IF email = "" \/ InList(email, seen)
            THEN DuplicateEmails(contacts, i + 1, seen)
            ELSE (IF Len(WithEmail(contacts, email)) > 1 THEN <<email>> ELSE <<>>)
                 \o DuplicateEmails(contacts, i + 1, Append(seen, email))

find_duplicates(contacts) == DuplicateEmails(contacts, 1, <<>>)

\* the concatenation of the texts of a list
RECURSIVE Concat(_)
Concat(texts) == IF texts = <<>> THEN "" ELSE Head(texts) \o Concat(Tail(texts))

DuplicateLines(contacts, email) ==
    "  " \o email \o " (" \o ToString(Len(WithEmail(contacts, email))) \o " contacts):\n"
    \o Concat([i \in 1..Len(WithEmail(contacts, email)) |->
                  "    - " \o WithEmail(contacts, email)[i].firstName \o " "
                  \o WithEmail(contacts, email)[i].lastName
                  \o " (ID: " \o WithEmail(contacts, email)[i].id \o ")\n"])

DuplicateReport(contacts) ==
    LET duplicates == find_duplicates(contacts)
    IN IF duplicates = <<>> THEN "No duplicate contacts found"
       ELSE "Found " \o ToString(Len(duplicates)) \o " duplicate email(s):\n\n"
            \o Concat([i \in 1..Len(duplicates) |-> DuplicateLines(contacts, duplicates[i])])
            \o "\nRecommendation: Manually review and merge in GHL UI"

FlagLines(check) ==
    "  " \o check.contact_name \o " (ID: " \o check.contact_id \o ")\n"
    \o "    Reason: " \o check.reason[2] \o "\n"
    \o "    Actions blocked: " \o Join(check.actions_blocked) \o "\n"
    \o "    Recommended: " \o check.recommended_action[2] \o "\n\n"

CulturalReport(contacts) ==
    LET checks == [i \in 1..Len(contacts) |-> check_contact_cultural_protocols(contacts[i])]
        flagged == SelectSeq(checks, LAMBDA check : check.requires_review)
    IN IF flagged = <<>> THEN "No contacts requiring cultural protocol review"
       ELSE "Flagged " \o ToString(Len(flagged))
            \o " contact(s) for cultural protocol review:\n\n"
            \o Concat([i \in 1..Len(flagged) |-> FlagLines(flagged[i])])

UNKNOWN_TASK == "Unknown cleanup task. Available commands"

\* the items of a dict passed on as an argument
RECURSIVE DictItems(_)
DictItems(d) ==
    IF DOMAIN d = {} THEN <<>>
    ELSE LET k == CHOOSE k \in DOMAIN d : TRUE
         IN << <<k, d[k]>> >> \o DictItems([j \in DOMAIN d \ {k} |-> d[j]])

\* The loops of run go over all_contacts = search_contacts({}), the list of
\* the stored dicts in store order: position i is the i-th stored record as it
\* is when the loop reaches it.  Each loop gives Outcome(store, raised, <<fixed>>).

\* the loop of the 'normalize' / 'tag' branch
RECURSIVE NormalizeAll(_, _, _)
NormalizeAll(contacts, i, fixed) ==
    IF i > Len(contacts) THEN Outcome(contacts, NoError, <<fixed>>)
    ELSE LET normalized_tags == normalize_tags(contacts[i])
         IN IF normalized_tags # contacts[i].tags
            THEN LET u == update_contact(contacts, contacts[i].id, "tags" :> normalized_tags)
                 IN IF u.raised # NoError THEN Outcome(u.store, u.raised, <<>>)
                    ELSE NormalizeAll(u.store, i + 1, fixed + 1)
            ELSE NormalizeAll(contacts, i + 1, fixed)

\* the loop of the 'missing' / 'field' branch: fix_missing_fields fills the
\* stored dict and returns the contact it was given, so updated and contact
\* are one object when they are compared
RECURSIVE FixAll(_, _, _)
FixAll(contacts, i, fixed) ==
    IF i > Len(contacts) THEN Outcome(contacts, NoError, <<fixed>>)
    ELSE LET filled == [contacts EXCEPT ![i] = fix_missing_fields(contacts[i])]
             contact == filled[i]
             updated == contact
         IN IF updated.customFields # contact.customFields
            THEN LET u == update_contact(filled, contact.id,
                                         "customFields" :> DictItems(updated.customFields))
                 IN IF u.raised # NoError THEN Outcome(u.store, u.raised, <<>>)
                    ELSE FixAll(u.store, i + 1, fixed + 1)
            ELSE FixAll(filled, i + 1, fixed)

\* updated_fields of the 'email' / 'phone' branch
UpdatedFields(contact) ==
    (IF normalize_email(contact.email) # contact.email
     THEN "email" :> PyStr(normalize_email(contact.email)) ELSE <<>>)
    @@ (IF normalize_phone(contact.phone) # contact.phone
        THEN "phone" :> PyStr(normalize_phone(contact.phone)) ELSE <<>>)

\* the loop of the 'email' / 'phone' branch
RECURSIVE EmailPhoneAll(_, _, _)
EmailPhoneAll(contacts, i, fixed) ==
    IF i > Len(contacts) THEN Outcome(contacts, NoError, <<fixed>>)
    ELSE IF DOMAIN UpdatedFields(contacts[i]) # {}
    THEN LET u == update_contact(contacts, contacts[i].id, UpdatedFields(contacts[i]))
         IN IF u.raised # NoError THEN Outcome(u.store, u.raised, <<>>)
            ELSE EmailPhoneAll(u.store, i + 1, fixed + 1)
    ELSE EmailPhoneAll(contacts, i + 1, fixed)

\* the report of a loop: the exception it raised, or the text with the count
LoopReport(r, before, after) ==
    IF r.raised # NoError THEN r
    ELSE Outcome(r.store, NoError, <<before \o ToString(r.returned[1]) \o after>>)

\* CleanupAgent.run: the branch is chosen by the words in task.lower()
run(contacts, task) ==
    LET task_lower == Lower(task) IN
    IF Contains(task_lower, "duplicate")
    THEN Outcome(contacts, NoError, <<DuplicateReport(contacts)>>)
    ELSE IF Contains(task_lower, "normalize") \/ Contains(task_lower, "tag")
    THEN LoopReport(NormalizeAll(contacts, 1, 0), "Normalized tags for ", " contact(s)")
    ELSE IF Contains(task_lower, "missing") \/ Contains(task_lower, "field")
    THEN LoopReport(FixAll(contacts, 1, 0), "Fixed missing fields for ", " contact(s)")
    ELSE IF Contains(task_lower, "cultural") \/ Contains(task_lower, "protocol")
    THEN Outcome(contacts, NoError, <<CulturalReport(contacts)>>)
    ELSE IF Contains(task_lower, "email") \/ Contains(task_lower, "phone")
    THEN LoopReport(EmailPhoneAll(contacts, 1, 0), "Normalized email/phone for ",
                    " contact(s)")
    ELSE Outcome(contacts, NoError, <<UNKNOWN_TASK>>)

\* the commands the help text lists, one more that reaches the email branch,
\* and one that no branch takes
CleanupTasks == {"find duplicates", "normalize tags", "Fix missing fields",
                 "check cultural protocols", "normalize email phone", "fix phone",
                 "help"}

\* updates a caller sends: tags that are not normalised, a field set to None,
\* and dicts with the top-level keys 'email' / 'phone'
CleanupUpdateInputs ==
    ArgDicts("customFields", {<<"Elder Council">>, <<"The--Harvest ", "the-harvest">>},
             {<< <<"volunteer_hours_total", PyNone>> >>})
    \cup {"phone" :> PyStr("0412 345 678"),
          ("email" :> PyStr("Jane@Example.com"))
              @@ ("customFields" :> << <<"stories_count", PyInt(7)>> >>)}

Do_run(Tasks) ==
    \E task \in Tasks :
        \E out \in {run(mock_contacts, task)} :
        /\ mock_contacts' = out.store
        /\ last' = Call("run", "", "", <<task>>, out)
        /\ UNCHANGED <<probe, loop, tracker>>

NextCleanup ==
    \/ Do_run(CleanupTasks)
    \/ Do_update_contact(CleanupUpdateInputs)

SpecCleanup == Init /\ [][NextCleanup]_vars

-----------------------------------------------------------------------------
(* SyncAgent (agents/sync_agent.py).  The agent reads the contacts of the   *)
(* GHLTool it was built with; a sync is a mock that returns a result and   *)
(* writes nothing.                                                          *)

\* _define_sync_rules: the keys of each rule that sync_contact and
\* reconcile_all read ('direction', 'reason', and the keys of 'fields')
sync_rules ==
    [storyteller |->
        [direction |-> "supabase_to_ghl",
         fields |-> <<"name", "email", "supabase_user_id", "storyteller_status",
                      "stories_count">>],
     volunteer |->
        [direction |-> "bidirectional",
         fields |-> <<"name", "email", "phone", "volunteer_hours_total",
                      "volunteer_interests", "volunteer_orientation_completed">>],
     saas_customer |->
        [direction |-> "stripe_to_ghl_to_notion",
         fields |-> <<"organization_name", "email", "arr", "customer_health_score",
                      "subscription_status">>],
     event_registration |->
        [direction |-> "ghl_to_notion",
         fields |-> <<"event_name", "registration_date", "attendance_status">>],
     family_support |->
        [direction |-> "none",
         reason |-> "Privacy-critical data stays in GHL, never exported"],
     elder_consent |->
        [direction |-> "none",
         reason |-> "Sacred Indigenous data protected by OCAP principles"]]

\* self.sync_rules.get(contact_type, {})
RulesOf(contact_type) ==
    IF contact_type \in DOMAIN sync_rules THEN sync_rules[contact_type] ELSE <<>>

\* the first branch that matches decides the type
_determine_contact_type(contact) ==
    IF InList("role:storyteller", contact.tags) THEN "storyteller"
    ELSE IF InList("role:volunteer", contact.tags) THEN "volunteer"
    ELSE IF InList("lead:saas", contact.tags) THEN "saas_customer"
    ELSE IF InList("category:family", contact.tags) THEN "family_support"
    ELSE "unknown"

_has_obvious_conflict(contact) == contact.email = ""

sync_contact(contacts, contact_id, direction) ==
    LET g == get_contact(contacts, contact_id) IN
    IF g.raised # NoError THEN g
    ELSE LET contact_type == _determine_contact_type(g.returned[1])
             rules == RulesOf(contact_type)
         IN IF ArgGet(rules, "direction", "") = "none"
            THEN Outcome(contacts, NoError,
                         <<[success |-> FALSE, contact_id |-> contact_id,
                            reason |-> ArgGet(rules, "reason",
                                              "Sync not allowed for this data type"),
                            blocked |-> TRUE]>>)
            ELSE Outcome(contacts, NoError,
                         <<[success |-> TRUE, contact_id |-> contact_id,
                            contact_type |-> contact_type, direction |-> direction,
                            fields_synced |-> ArgGet(rules, "fields", <<>>)]>>)

\* summary[key] += 1 and summary['by_type'][contact_type][key] += 1
Bump(summary, contact_type, key) ==
    [summary EXCEPT ![key] = @ + 1, !.by_type[contact_type][key] = @ + 1]

\* summary['by_type'][contact_type]['count'] += 1, on a new entry when the
\* type was not seen before
Tracked(summary, contact_type) ==
    LET entry == IF contact_type \in DOMAIN summary.by_type
                 THEN summary.by_type[contact_type]
                 ELSE [count |-> 0, sync_needed |-> 0, conflicts |-> 0, blocked |-> 0]
    IN [summary EXCEPT !.by_type =
            (contact_type :> [entry EXCEPT !.count = @ + 1]) @@ @]

\* the loop of reconcile_all; the sync_contact it calls when dry_run is off
\* returns a result that is dropped
RECURSIVE Reconcile(_, _, _)
Reconcile(contacts, i, summary) ==
    IF i > Len(contacts) THEN summary
    ELSE LET contact == contacts[i]
             contact_type == _determine_contact_type(contact)
             s == Tracked(summary, contact_type)
         IN IF ArgGet(RulesOf(contact_type), "direction", "") = "none"
            THEN Reconcile(contacts, i + 1, Bump(s, contact_type, "blocked"))
            ELSE IF _has_obvious_conflict(contact)
            THEN Reconcile(contacts, i + 1, Bump(s, contact_type, "conflicts"))
            ELSE IF Truthy(ArgGet(contact.customFields, "supabase_user_id", PyNone))
            THEN Reconcile(contacts, i + 1, Bump(s, contact_type, "sync_needed"))
            ELSE Reconcile(contacts, i + 1, s)

reconcile_all(contacts, dry_run) ==
    Outcome(contacts, NoError,
            <<Reconcile(contacts, 1,
                        [total_contacts |-> Len(contacts), sync_needed |-> 0,
                         conflicts |-> 0, blocked |-> 0, by_type |-> <<>>,
                         dry_run |-> dry_run])>>)

\* tags a caller adds before a sync: the family category and a role
SyncTags == {"category:family", "role:storyteller"}

SyncDirections == {"ghl_to_supabase", "bidirectional"}

Do_sync_contact ==
    \E id \in CallerIds, direction \in SyncDirections :
        \E out \in {sync_contact(mock_contacts, id, direction)} :
        /\ mock_contacts' = out.store
        /\ last' = Call("sync_contact", id, "", <<direction>>, out)
        /\ UNCHANGED <<probe, loop, tracker>>

Do_reconcile_all ==
    \E dry_run \in BOOLEAN :
        \E out \in {reconcile_all(mock_contacts, dry_run)} :
        /\ mock_contacts' = out.store
        /\ last' = Call("reconcile_all", "", "", <<dry_run>>, out)
        /\ UNCHANGED <<probe, loop, tracker>>

NextSync ==
    \/ Do_add_tag(SyncTags)
    \/ Do_remove_tag(SyncTags)
    \/ Do_sync_contact
    \/ Do_reconcile_all

SpecSync == Init /\ [][NextSync]_vars

-----------------------------------------------------------------------------
(* CostTracker (config/production.py).  A message is a function on the     *)
(* attributes it has ('id', 'usage'); usage is a dict of token counts.  The *)
(* cost is kept in millionths of a dollar: 30 for an input token (0.00003)  *)
(* and 150 for an output token (0.00015).                                   *)

INPUT_COST == 30

OUTPUT_COST == 150

\* faulty variant: the processed ids are not consulted
track_message_CountsRepeats(t, message, agent_name) ==
    IF "usage" \notin DOMAIN message THEN t
    ELSE LET msg_id == ArgGet(message, "id", PyNone)
             usage == message["usage"]
             input_tokens == ArgGet(usage, "input_tokens", 0)
             output_tokens == ArgGet(usage, "output_tokens", 0)
             total_cost == input_tokens * INPUT_COST + output_tokens * OUTPUT_COST
             entry == IF agent_name \in DOMAIN t.agent_costs
                      THEN t.agent_costs[agent_name]
                      ELSE [input_tokens |-> 0, output_tokens |-> 0, cost |-> 0,
                            message_count |-> 0]
         IN [processed_message_ids |->
                 IF Truthy(msg_id) THEN t.processed_message_ids \cup {msg_id}
                 ELSE t.processed_message_ids,
             agent_costs |->
                 (agent_name :> [input_tokens |-> entry.input_tokens + input_tokens,
                                 output_tokens |-> entry.output_tokens + output_tokens,
                                 cost |-> entry.cost + total_cost,
                                 message_count |-> entry.message_count + 1])
                 @@ t.agent_costs,
             total_input_tokens |-> t.total_input_tokens + input_tokens,
             total_output_tokens |-> t.total_output_tokens + output_tokens]

\* CostTracker.track_message: the tracker after the call
track_message(t, message, agent_name) ==
    IF "usage" \notin DOMAIN message THEN t
    ELSE LET msg_id == ArgGet(message, "id", PyNone)
             usage == message["usage"]
             input_tokens == ArgGet(usage, "input_tokens", 0)
             output_tokens == ArgGet(usage, "output_tokens", 0)
             total_cost == input_tokens * INPUT_COST + output_tokens * OUTPUT_COST
             entry == IF agent_name \in DOMAIN t.agent_costs
                      THEN t.agent_costs[agent_name]
                      ELSE [input_tokens |-> 0, output_tokens |-> 0, cost |-> 0,
                            message_count |-> 0]
         IN IF Truthy(msg_id) /\ msg_id \in t.processed_message_ids THEN t
            ELSE [processed_message_ids |->
                      IF Truthy(msg_id) THEN t.processed_message_ids \cup {msg_id}
                      ELSE t.processed_message_ids,
                  agent_costs |->
                      (agent_name :> [input_tokens |-> entry.input_tokens + input_tokens,
                                      output_tokens |-> entry.output_tokens + output_tokens,
                                      cost |-> entry.cost + total_cost,
                                      message_count |-> entry.message_count + 1])
                      @@ t.agent_costs,
                  total_input_tokens |-> t.total_input_tokens + input_tokens,
                  total_output_tokens |-> t.total_output_tokens + output_tokens]

\* the tracked messages do not exceed this many tokens in all
MaxTokens == 40

\* messages with an id, with an empty id, with no id and with no usage
Messages ==
    {("id" :> PyStr("msg_1")) @@ ("usage" :> [input_tokens |-> 10, output_tokens |-> 5]),
     ("id" :> PyStr("msg_2")) @@ ("usage" :> [input_tokens |-> 10]),
     ("id" :> PyStr("")) @@ ("usage" :> [input_tokens |-> 10, output_tokens |-> 5]),
     "usage" :> [output_tokens |-> 5],
     "id" :> PyStr("msg_1")}

\* agent names a caller passes; 'unknown' is the default
AgentNames == {"cleanup", "sync", "unknown"}

Do_track_message ==
    \E message \in Messages, agent_name \in AgentNames :
        \E t \in {track_message(tracker, message, agent_name)} :
        /\ t.total_input_tokens + t.total_output_tokens <= MaxTokens
        /\ tracker' = t
        /\ last' = [NoCall EXCEPT !.op = "track_message", !.tag = agent_name,
                                  !.args = message]
        /\ UNCHANGED <<mock_contacts, probe, loop>>

NextTracker == Do_track_message

SpecTracker == Init /\ [][NextTracker]_vars

-----------------------------------------------------------------------------
(* Vocabulary of the properties *)

BlockedSet == {BLOCKED_FIELDS[i] : i \in 1..Len(BLOCKED_FIELDS)}
ReadOnlySet == {READ_ONLY_FIELDS[i] : i \in 1..Len(READ_ONLY_FIELDS)}

Exists(contact_id) == \E i \in 1..Len(mock_contacts) : mock_contacts[i].id = contact_id

Stored(contact_id) ==
    mock_contacts[CHOOSE i \in 1..Len(mock_contacts) : mock_contacts[i].id = contact_id]

\* the keys an update or a search names
NamedFields(args, key) ==
    IF key \in DOMAIN args THEN {args[key][i][1] : i \in 1..Len(args[key])} ELSE {}

RejectedForWrite(f) == f \in BlockedSet \cup ReadOnlySet

Count(x, lst) == Cardinality({i \in 1..Len(lst) : lst[i] = x})

Raised(call, type, tier) == call.raised.type = type /\ call.raised.tier = tier

\* C1: a direct check of a BLOCKED field raises the BLOCKED violation for read,
\* write and delete, whatever context is passed and whatever the store holds
C1_BlockedAlwaysRaises ==
    (last.op = "check_cultural_protocol" /\ last.args[1] \in BlockedSet)
        => /\ Raised(last, "PermissionError", "BLOCKED")
           /\ last.raised.field = last.args[1]
           /\ last.raised.operation = last.args[2]

C1_Witness ==
    /\ last.op = "check_cultural_protocol"
    /\ last.args = <<"sacred_knowledge", "read", PyStr("admin_override")>>
    /\ Raised(last, "PermissionError", "BLOCKED")

\* C5: a direct check of a READ_ONLY field returns for read and raises the
\* read-only violation for write and delete
C5_ReadOnlyTier ==
    (last.op = "check_cultural_protocol" /\ last.args[1] \in ReadOnlySet)
        => IF last.args[2] = "read"
           THEN last.raised = NoError
           ELSE /\ last.args[2] \in {"write", "delete"}
                /\ Raised(last, "PermissionError", "READ_ONLY")
                /\ last.raised.field = last.args[1]

C5_Witness ==
    /\ last.op = "check_cultural_protocol"
    /\ last.args[1] = "supabase_user_id"
    /\ last.args[2] = "delete"
    /\ Raised(last, "PermissionError", "READ_ONLY")

\* C6: a field in neither list passes the check for read, write and delete, and
\* an update_contact of an existing contact that names only such fields is
\* never rejected
C6_DefaultOpen ==
    /\ (last.op = "check_cultural_protocol" /\ last.args[1] \notin BlockedSet \cup ReadOnlySet)
           => last.raised = NoError
    /\ (/\ last.op = "update_contact"
        /\ Exists(last.contact_id)
        /\ NamedFields(last.args, "customFields") \cap (BlockedSet \cup ReadOnlySet) = {})
           => last.raised = NoError

C6_Witness ==
    /\ last.op = "update_contact"
    /\ last.contact_id = "contact_003"
    /\ NamedFields(last.args, "customFields") = {"stories_count"}
    /\ last.raised = NoError
    /\ Stored("contact_003").customFields["stories_count"] = PyInt(7)

\* C2: an update_contact that names at least one rejected key raises the
\* violation and leaves every stored record as it was before the call
C2_UpdateAllOrNothing ==
    [][(/\ last'.op = "update_contact"
        /\ \E f \in NamedFields(last'.args, "customFields") : RejectedForWrite(f))
           => /\ last'.raised.type = "PermissionError"
              /\ mock_contacts' = mock_contacts]_vars

\* a rejected update of contact_001 that also named an open field and new tags
C2_Witness ==
    /\ last.op = "update_contact"
    /\ last.contact_id = "contact_001"
    /\ last.raised.type = "PermissionError"
    /\ "tags" \in DOMAIN last.args
    /\ Keys(ArgGet(last.args, "customFields", <<>>)) = <<"stories_count", "elder_consent">>
    /\ Stored("contact_001").customFields["stories_count"] # PyInt(7)
    /\ Stored("contact_001").tags # last.args["tags"]

NoBlockedKey(contacts) ==
    \A i \in 1..Len(contacts) : DOMAIN contacts[i].customFields \cap BlockedSet = {}

\* C3: from the mock data, which holds no BLOCKED key, no sequence of calls
\* puts elder_consent or sacred_knowledge into a record's customFields
C3_NoBlockedKeyStored == NoBlockedKey(mock_contacts)

\* an update of an existing contact named a blocked key after an open one
C3_Witness ==
    /\ last.op = "update_contact"
    /\ Exists(last.contact_id)
    /\ Keys(ArgGet(last.args, "customFields", <<>>)) = <<"stories_count", "elder_consent">>
    /\ NoBlockedKey(mock_contacts)

\* C4: a search whose customFieldFilters names a BLOCKED field raises the
\* BLOCKED violation, returns no record and leaves the store unchanged
C4_BlockedSearchFails ==
    [][(/\ last'.op = "search_contacts"
        /\ NamedFields(last'.args, "customFieldFilters") \cap BlockedSet # {})
           => /\ Raised(last', "PermissionError", "BLOCKED")
              /\ last'.raised.operation = "read"
              /\ last'.returned = <<>>
              /\ mock_contacts' = mock_contacts]_vars

\* the rejected search also carried a tag filter and a field comparison that
\* a stored record satisfies
C4_Witness ==
    /\ last.op = "search_contacts"
    /\ Raised(last, "PermissionError", "BLOCKED")
    /\ "tags" \in DOMAIN last.args
    /\ Keys(ArgGet(last.args, "customFieldFilters", <<>>)) = <<"stories_count", "elder_consent">>
    /\ \E i \in 1..Len(mock_contacts) :
          /\ AnyTagIn(mock_contacts[i], last.args["tags"])
          /\ "stories_count" \in DOMAIN mock_contacts[i].customFields

\* the stored record shows the update: the tags given and every item written
Applied(contact, updates) ==
    /\ "tags" \in DOMAIN updates => contact.tags = updates["tags"]
    /\ "customFields" \in DOMAIN updates =>
          \A i \in 1..Len(updates["customFields"]) :
              /\ updates["customFields"][i][1] \in DOMAIN contact.customFields
              /\ contact.customFields[updates["customFields"][i][1]]
                     = updates["customFields"][i][2]

\* C7: the review flag blocks nothing: get_contact of an existing contact
\* returns the stored record, and an update_contact of an existing contact
\* that names no rejected key is applied, also when the classifier flags the
\* record (and lists read and write among the blocked actions)
C7_ReviewNeverBlocks ==
    /\ (last.op = "get_contact" /\ Exists(last.contact_id))
           => /\ last.raised = NoError
              /\ last.returned = <<Stored(last.contact_id)>>
    /\ (/\ last.op = "update_contact"
        /\ Exists(last.contact_id)
        /\ \A f \in NamedFields(last.args, "customFields") : ~RejectedForWrite(f))
           => /\ last.raised = NoError
              /\ last.returned = <<Stored(last.contact_id)>>
              /\ Applied(Stored(last.contact_id), last.args)

\* an update went through on a record whose flag blocks read and write
C7_Witness ==
    /\ last.op = "update_contact"
    /\ last.contact_id = "contact_003"
    /\ last.raised = NoError
    /\ NamedFields(last.args, "customFields") = {"stories_count"}
    /\ Stored("contact_003").customFields["stories_count"] = PyInt(7)
    /\ check_contact_cultural_protocols(Stored("contact_003")).requires_review
    /\ InList("write", check_contact_cultural_protocols(Stored("contact_003")).actions_blocked)
    /\ InList("read", check_contact_cultural_protocols(Stored("contact_003")).actions_blocked)

TagsOf(contacts, contact_id) == contacts[FindContact(contacts, contact_id)].tags

\* C8 as claimed: after add_tag(id, t) on an existing contact the tags hold t
\* exactly once and a second add_tag(id, t) changes nothing
C8_AddTagExactlyOnce ==
    (last.op = "add_tag" /\ last.raised = NoError)
        => /\ Count(last.tag, TagsOf(mock_contacts, last.contact_id)) = 1
           /\ add_tag(mock_contacts, last.contact_id, last.tag).store = mock_contacts

\* C8 as amended: add_tag(id, t) adds t once when the list lacked it and
\* otherwise leaves the list as it was, repeated entries included; a second
\* add_tag(id, t) changes nothing
C8_AddTagIdempotent ==
    [][(last'.op = "add_tag" /\ last'.raised = NoError)
          => /\ TagsOf(mock_contacts', last'.contact_id) =
                   IF InList(last'.tag, TagsOf(mock_contacts, last'.contact_id))
                   THEN TagsOf(mock_contacts, last'.contact_id)
                   ELSE Append(TagsOf(mock_contacts, last'.contact_id), last'.tag)
             /\ Count(last'.tag, TagsOf(mock_contacts', last'.contact_id)) =
                   IF Count(last'.tag, TagsOf(mock_contacts, last'.contact_id)) = 0
                   THEN 1
                   ELSE Count(last'.tag, TagsOf(mock_contacts, last'.contact_id))
             /\ add_tag(mock_contacts', last'.contact_id, last'.tag).store = mock_contacts'
       ]_vars

\* add_tag appended a tag the contact lacked, next to another tag
C8_Witness ==
    /\ last.op = "add_tag"
    /\ last.contact_id = "contact_001"
    /\ last.tag = "role:elder"
    /\ last.raised = NoError
    /\ TagsOf(mock_contacts, "contact_001") = <<"the-harvest", "role:elder">>

\* C9 as claimed: after remove_tag(id, t) on an existing contact the tags do not
\* hold t and a second remove_tag(id, t) changes nothing
C9_RemoveTagIdempotent ==
    (last.op = "remove_tag" /\ last.raised = NoError)
        => /\ ~InList(last.tag, TagsOf(mock_contacts, last.contact_id))
           /\ remove_tag(mock_contacts, last.contact_id, last.tag).store = mock_contacts

-----------------------------------------------------------------------------
(* C10: the order and the accumulation of the classifier's rules *)

RuleMatches(k, contact) ==
    CASE k = 1 -> ElderTagRule(contact)
      [] k = 2 -> ReviewFieldRule(contact)
      [] k = 3 -> CulturalTagRule(contact)
      [] k = 4 -> SacredKnowledgeRule(contact)

RuleReason(k, contact) ==
    CASE k = 1 -> ELDER_TAG_REASON
      [] k = 2 -> REVIEW_FIELD_REASON
      [] k = 3 -> CulturalTagReason(contact)
      [] k = 4 -> SACRED_REASON

RuleRecommendation(k) ==
    CASE k = 1 -> ELDER_TAG_ACTION
      [] k = 2 -> REVIEW_FIELD_ACTION
      [] k = 3 -> CULTURAL_TAG_ACTION
      [] k = 4 -> SACRED_ACTION

RuleActions(k) ==
    CASE k = 1 -> {"automated_email", "automated_outreach", "ai_generated_content"}
      [] k = 2 -> {"automated_email", "automated_outreach", "ai_generated_content"}
      [] k = 3 -> {"bulk_operations"}
      [] k = 4 -> {"read", "write", "delete", "automated_email", "automated_outreach",
                   "ai_generated_content", "bulk_operations"}

MatchedRules(contact) == {k \in 1..4 : RuleMatches(k, contact)}

LastMatched(contact) ==
    CHOOSE k \in MatchedRules(contact) : \A j \in MatchedRules(contact) : j <= k

Elements(lst) == {lst[i] : i \in 1..Len(lst)}

Classified == probe.fn = "check_contact_cultural_protocols" /\ probe.result # <<>>

\* C10: reason and recommended_action are those of the last rule, in the order
\* elder tag, elder_review_required, cultural tag, sacred_knowledge, that
\* matched (None when none did), and the blocked actions are the union of the
\* action sets of the rules that matched
C10_RuleOrderAndUnion ==
    Classified =>
        LET contact == probe.args[1]
            flag == probe.result[1]
            matched == MatchedRules(contact)
        IN /\ flag.requires_review = (matched # {})
           /\ IF matched = {}
              THEN flag.reason = PyNone /\ flag.recommended_action = PyNone
              ELSE /\ flag.reason = PyStr(RuleReason(LastMatched(contact), contact))
                   /\ flag.recommended_action =
                          PyStr(RuleRecommendation(LastMatched(contact)))
           /\ Elements(flag.actions_blocked) = UNION {RuleActions(k) : k \in matched}

\* a record matching the first three rules and not the fourth
C10_Witness ==
    /\ Classified
    /\ MatchedRules(probe.args[1]) = {1, 2, 3}
    /\ probe.result[1].reason = PyStr("Contact has cultural tags: cultural:kabi-kabi")
    /\ Elements(probe.result[1].actions_blocked) =
          {"automated_email", "automated_outreach", "ai_generated_content", "bulk_operations"}

-----------------------------------------------------------------------------
(* C11..C13: single rules of the classifier *)

\* the flag get_contact computes from the record it returns (ghl_tool.py:191)
FlagOfReturned(call) == check_contact_cultural_protocols(call.returned[1])

\* C11: get_contact of a stored record whose tags include 'role:elder' returns
\* the record, whatever its other tags and fields, and the classifier flags it
\* with automated_email, automated_outreach and ai_generated_content blocked
C11_ElderTagAlwaysFlagged ==
    (/\ last.op = "get_contact"
     /\ Exists(last.contact_id)
     /\ InList("role:elder", Stored(last.contact_id).tags))
        => /\ last.raised = NoError
           /\ last.returned = <<Stored(last.contact_id)>>
           /\ FlagOfReturned(last).requires_review
           /\ {"automated_email", "automated_outreach", "ai_generated_content"}
                  \subseteq Elements(FlagOfReturned(last).actions_blocked)

\* the elder record also carries a cultural tag and a sacred_knowledge key
C11_Witness ==
    /\ last.op = "get_contact"
    /\ last.contact_id = "contact_003"
    /\ last.raised = NoError
    /\ last.returned[1].tags = <<"role:elder", "cultural:kabi-kabi">>
    /\ DictGet(last.returned[1].customFields, "sacred_knowledge") = PyTrue
    /\ FlagOfReturned(last).reason = PyStr(SACRED_REASON)
    /\ InList("automated_outreach", FlagOfReturned(last).actions_blocked)

\* the tags of ClassifierTags that name an ordinary role or project: none of
\* them names the elder role and none is in the cultural: namespace
OrdinaryTags == {"the-harvest", "role:welder"}

\* the record matches none of the four rules as the claims word them
NoRuleApplies(contact) ==
    /\ Elements(contact.tags) \subseteq OrdinaryTags
    /\ ~Truthy(DictGet(contact.customFields, "elder_review_required"))
    /\ DOMAIN contact.customFields \cap BlockedSet = {}

\* C12 as claimed: a record with only ordinary role/project tags, no
\* review_required flag and no critical field is classified
\* requires_review = False with reason None and no blocked action
C12_OrdinaryNeverFlagged ==
    (Classified /\ NoRuleApplies(probe.args[1]))
        => /\ ~probe.result[1].requires_review
           /\ probe.result[1].reason = PyNone
           /\ probe.result[1].actions_blocked = <<>>

\* C13 as claimed: a record whose customFields hold a BLOCKED key, whatever the
\* value stored under it, is classified requires_review = True with a reason
\* that starts with CRITICAL and with every action kind blocked
C13_CriticalFieldPresent ==
    (Classified /\ DOMAIN probe.args[1].customFields \cap BlockedSet # {})
        => /\ probe.result[1].requires_review
           /\ probe.result[1].reason[1] = "str"
           /\ StartsWith(probe.result[1].reason[2], "CRITICAL")
           /\ Elements(ALL_ACTIONS) \subseteq Elements(probe.result[1].actions_blocked)

-----------------------------------------------------------------------------
(* C15, C16: ids that are not stored, and the set of stored ids *)

\* C15: get_contact, update_contact naming no rejected field, add_tag and
\* remove_tag called with an id that is not stored raise ValueError, return
\* nothing and leave every stored record as it was
C15_MissingIdFails ==
    [][(/\ last'.op \in {"get_contact", "update_contact", "add_tag", "remove_tag"}
        /\ ~Exists(last'.contact_id)
        /\ last'.op = "update_contact" =>
              \A f \in NamedFields(last'.args, "customFields") : ~RejectedForWrite(f))
           => /\ last'.raised = ValueError(last'.contact_id)
              /\ last'.returned = <<>>
              /\ mock_contacts' = mock_contacts]_vars

\* remove_tag of a missing id failed after earlier calls had changed the store
C15_Witness ==
    /\ last.op = "remove_tag"
    /\ last.contact_id = "contact_999"
    /\ last.raised = ValueError("contact_999")
    /\ mock_contacts # MockData

\* the ids of the stored records, in store order
Ids(contacts) == [i \in 1..Len(contacts) |-> contacts[i].id]

\* C16: after any sequence of get_contact, search_contacts, update_contact,
\* add_tag and remove_tag the stored ids are the ids of the mock data: no
\* record is created or deleted and no id changes
C16_IdsNeverChange == Ids(mock_contacts) = Ids(MockData)

\* both records were rewritten, and an update of a missing id had been issued
C16_Witness ==
    /\ last.op = "update_contact"
    /\ last.contact_id = "contact_999"
    /\ last.raised.type = "ValueError"
    /\ Stored("contact_001") # CONTACT_001
    /\ Stored("contact_003") # CONTACT_003

-----------------------------------------------------------------------------
(* C17: tags are not gated by the field tiers *)

\* C17: on an existing contact an update_contact carrying only tags is applied,
\* add_tag leaves the tag in the list and remove_tag returns, for every tag,
\* the name of a BLOCKED or READ_ONLY field included, whether or not the
\* contact requires review
C17_TagsNeverGated ==
    /\ (/\ last.op = "update_contact"
        /\ Exists(last.contact_id)
        /\ DOMAIN last.args = {"tags"})
           => /\ last.raised = NoError
              /\ Stored(last.contact_id).tags = last.args["tags"]
    /\ (last.op = "add_tag" /\ Exists(last.contact_id))
           => /\ last.raised = NoError
              /\ InList(last.tag, Stored(last.contact_id).tags)
    /\ (last.op = "remove_tag" /\ Exists(last.contact_id))
           => /\ last.raised = NoError
              /\ last.returned = <<Stored(last.contact_id)>>

\* the name of a BLOCKED field was added as a tag to the elder's record, which
\* requires review
C17_Witness ==
    /\ last.op = "add_tag"
    /\ last.contact_id = "contact_003"
    /\ last.tag = "elder_consent"
    /\ last.raised = NoError
    /\ Stored("contact_003").tags = <<"role:elder", "elder_consent">>
    /\ ReviewFieldRule(Stored("contact_003"))
    /\ check_contact_cultural_protocols(Stored("contact_003")).requires_review

-----------------------------------------------------------------------------
(* C19: what a search returns *)

\* one comparison of the predicate on one record; a field the record lacks
\* counts as 0 in an order comparison, as in c.get(field, 0)
Compares(c, field, op, value) ==
    CASE op = "$eq" -> PyEq(FieldOr(c, field, PyNone), value)
      [] op = "$gte" -> FieldOr(c, field, PyInt(0))[2] >= value[2]
      [] op = "$lte" -> FieldOr(c, field, PyInt(0))[2] <= value[2]
      [] op = "$exists" -> (field \in DOMAIN c.customFields) = Truthy(value)

\* the record passes the tag filter and every comparison of every field filter
SatisfiesPredicate(c, filters) ==
    /\ ("tags" \in DOMAIN filters /\ filters["tags"] # <<>>) => AnyTagIn(c, filters["tags"])
    /\ "customFieldFilters" \in DOMAIN filters =>
          \A i \in 1..Len(filters["customFieldFilters"]) :
              LET field == filters["customFieldFilters"][i][1]
                  condition == filters["customFieldFilters"][i][2]
              IN \A j \in 1..Len(condition) :
                     Compares(c, field, condition[j][1], condition[j][2])

\* the order comparisons of the predicate compare ints on every stored record
OrderComparisonsDefined(contacts, filters) ==
    "customFieldFilters" \in DOMAIN filters =>
        \A i \in 1..Len(filters["customFieldFilters"]) :
            LET field == filters["customFieldFilters"][i][1]
                condition == filters["customFieldFilters"][i][2]
            IN \A j \in 1..Len(condition) :
                   condition[j][1] \in {"$gte", "$lte"} =>
                       \A k \in 1..Len(contacts) :
                           Comparable(FieldOr(contacts[k], field, PyInt(0)), condition[j][2])

\* C19 as claimed: a search that returns gives exactly the stored records, in
\* store order, that pass the tag filter and every equals, greater-or-equal,
\* less-or-equal and exists comparison of the predicate
C19_SearchReturnsExactly ==
    (/\ last.op = "search_contacts"
     /\ last.raised = NoError
     /\ OrderComparisonsDefined(mock_contacts, last.args))
        => last.returned = SelectSeq(mock_contacts,
                                     LAMBDA c : SatisfiesPredicate(c, last.args))

-----------------------------------------------------------------------------
(* C20: get_contact is not gated *)

\* the BLOCKED keys the stored record holds
BlockedKeysOf(contact_id) == DOMAIN Stored(contact_id).customFields \cap BlockedSet

\* C20: get_contact of a record that holds a BLOCKED key returns the whole
\* record, the key and its value included, and raises nothing; a search and an
\* update_contact that name a BLOCKED key some record holds are rejected
C20_GetContactUngated ==
    /\ (/\ last.op = "get_contact"
        /\ Exists(last.contact_id)
        /\ BlockedKeysOf(last.contact_id) # {})
           => /\ last.raised = NoError
              /\ last.returned = <<Stored(last.contact_id)>>
              /\ BlockedKeysOf(last.contact_id) \subseteq DOMAIN last.returned[1].customFields
    /\ \A id \in Elements(Ids(mock_contacts)) :
          /\ (/\ last.op = "search_contacts"
              /\ NamedFields(last.args, "customFieldFilters") \cap BlockedKeysOf(id) # {})
                 => /\ Raised(last, "PermissionError", "BLOCKED")
                    /\ last.returned = <<>>
          /\ (/\ last.op = "update_contact"
              /\ NamedFields(last.args, "customFields") \cap BlockedKeysOf(id) # {})
                 => /\ last.raised.type = "PermissionError"
                    /\ last.returned = <<>>

\* the elder's record came back with sacred_knowledge in it
C20_Witness ==
    /\ last.op = "get_contact"
    /\ last.contact_id = "contact_003"
    /\ last.raised = NoError
    /\ "sacred_knowledge" \in DOMAIN last.returned[1].customFields
    /\ last.returned[1].customFields["sacred_knowledge"] = PyTrue

-----------------------------------------------------------------------------
(* C18: two concurrent writes to one contact id *)

AllDone == loop.tasks # <<>> /\ \A t \in 1..2 : loop.tasks[t].pc = "done"

\* the store after call a ran to its end and then call b
Sequential(contacts, a, b) == RunCall(RunCall(contacts, a).store, b).store

-----------------------------------------------------------------------------
(* C21: the blocked actions as a collection *)

\* C21 as claimed: each action kind appears at most once in the actions_blocked
\* the classifier returns, also when several rules blocking the same actions
\* match
C21_BlockedActionsAreASet ==
    Classified =>
        \A a \in Elements(probe.result[1].actions_blocked) :
            Count(a, probe.result[1].actions_blocked) = 1

-----------------------------------------------------------------------------
(* C22: the tiers *)

\* the tier of a field name: at most one list holds it
TierOf(field_name) ==
    IF field_name \in BlockedSet THEN "BLOCKED"
    ELSE IF field_name \in ReadOnlySet THEN "READ_ONLY"
    ELSE "OPEN"

\* the decision the tiers give for a field and an operation
Decision(field_name, operation) ==
    CASE TierOf(field_name) = "BLOCKED" -> PermissionError(field_name, operation, "BLOCKED")
      [] TierOf(field_name) = "READ_ONLY" /\ operation \in {"write", "delete"} ->
            PermissionError(field_name, operation, "READ_ONLY")
      [] OTHER -> NoError

\* C22: no field name is in both lists, and in every state the tool reaches the
\* check of a field and an operation gives the decision of the field's tier
C22_TiersExclusiveAndFixed ==
    /\ BlockedSet \cap ReadOnlySet = {}
    /\ Cardinality(BlockedSet) = 2 /\ Cardinality(ReadOnlySet) = 3
    /\ last.op = "check_cultural_protocol"
          => last.raised = Decision(last.args[1], last.args[2])

\* a read-only field was checked for delete after an update had changed the store
C22_Witness ==
    /\ last.op = "check_cultural_protocol"
    /\ last.args[1] = "elder_review_required"
    /\ last.args[2] = "delete"
    /\ Raised(last, "PermissionError", "READ_ONLY")
    /\ mock_contacts # MockData


\* C23: no CleanupAgent command adds or changes a READ_ONLY field
\* (cultural_protocols, supabase_user_id, elder_review_required) of any record.
C23_ReadOnlyNeverEdited ==
    [][last'.op = "run" =>
        \A i \in 1..Len(mock_contacts) : \A f \in ReadOnlySet :
            /\ f \in DOMAIN mock_contacts'[i].customFields
                   <=> f \in DOMAIN mock_contacts[i].customFields
            /\ f \in DOMAIN mock_contacts[i].customFields
                   => mock_contacts'[i].customFields[f] = mock_contacts[i].customFields[f]]_vars


\* the number of records whose customFields differ between two stores
Changed(before, after) ==
    Cardinality({i \in 1..Len(before) : after[i].customFields # before[i].customFields})

\* C30: the number 'fix missing fields' reports as fixed is the number of
\* stored records whose customFields differ after the command from before it.
C30_FixedCountsChangedRecords ==
    [][(last'.op = "run" /\ last'.raised = NoError
            /\ StartsWith(last'.returned[1], "Fixed missing fields for "))
        => last'.returned[1] = "Fixed missing fields for "
                                  \o ToString(Changed(mock_contacts, mock_contacts'))
                                  \o " contact(s)"]_vars


\* C29: a successful update_contact changes only the record addressed, and in
\* it only tags (when given) and the customFields keys named; every other
\* customFields key, the top-level keys and every other record stay as they were.
C29_UpdateChangesOnlyNamed ==
    [][(last'.op = "update_contact" /\ last'.raised = NoError) =>
        /\ Len(mock_contacts') = Len(mock_contacts)
        /\ \A i \in 1..Len(mock_contacts) :
            LET c == mock_contacts[i]
                d == mock_contacts'[i]
                named == Elements(Keys(ArgGet(last'.args, "customFields", <<>>)))
            IN /\ c.id # last'.contact_id => d = c
               /\ d.id = c.id /\ d.email = c.email /\ d.phone = c.phone
               /\ d.firstName = c.firstName /\ d.lastName = c.lastName
               /\ "tags" \notin DOMAIN last'.args => d.tags = c.tags
               /\ DOMAIN d.customFields \subseteq DOMAIN c.customFields \cup named
               /\ \A k \in DOMAIN c.customFields \ named :
                     k \in DOMAIN d.customFields /\ d.customFields[k] = c.customFields[k]]_vars

\* an update naming 'email' and one field has changed that field alone
C29_Witness ==
    /\ last.op = "update_contact" /\ last.raised = NoError
    /\ last.contact_id = "contact_001"
    /\ "email" \in DOMAIN last.args
    /\ mock_contacts[1].email = "jane.smith@example.com"
    /\ mock_contacts[1].customFields["stories_count"] = PyInt(7)
    /\ mock_contacts[1].customFields["supabase_user_id"] = PyStr("uuid-123-storyteller")


\* the stored records tagged 'category:family'
Family(contacts) == {i \in 1..Len(contacts) : InList("category:family", contacts[i].tags)}

\* C24: a contact tagged 'category:family', whatever its other tags, is never
\* synced: sync_contact answers success = false and blocked = true, and
\* reconcile_all counts it as blocked and not as sync_needed.
C24_FamilyNeverSyncs ==
    /\ (last.op = "sync_contact" /\ last.raised = NoError
            /\ FindContact(mock_contacts, last.contact_id) \in Family(mock_contacts))
        => /\ ~last.returned[1].success
           /\ "blocked" \in DOMAIN last.returned[1]
           /\ last.returned[1].blocked
    /\ last.op = "reconcile_all"
        => /\ last.returned[1].blocked >= Cardinality(Family(mock_contacts))
           /\ last.returned[1].sync_needed
                  <= Len(mock_contacts) - Cardinality(Family(mock_contacts))


\* C25: track_message with a message whose id was already processed leaves the
\* totals, the processed ids and every agent's entry as they were, whatever
\* agent name is passed.
C25_RepeatedIdNotCounted ==
    [][(last'.op = "track_message" /\ "id" \in DOMAIN last'.args
            /\ last'.args["id"] \in tracker.processed_message_ids)
        => tracker' = tracker]_vars

\* msg_1 was tracked again under the name 'sync', which has no entry
C25_Witness ==
    /\ last.op = "track_message" /\ last.tag = "sync"
    /\ "usage" \in DOMAIN last.args
    /\ ArgGet(last.args, "id", PyNone) = PyStr("msg_1")
    /\ PyStr("msg_1") \in tracker.processed_message_ids
    /\ "sync" \notin DOMAIN tracker.agent_costs
    /\ tracker.total_input_tokens = 10


\* C26: the fields are checked before the store is read or written: an
\* update_contact that names a rejected field raises the policy violation
\* whether or not the id is stored, never the not-found error, and a
\* search_contacts that names a rejected field raises it and returns nothing;
\* neither changes the store.
C26_PolicyBeforeStore ==
    [][/\ (/\ last'.op = "update_contact"
           /\ \E f \in NamedFields(last'.args, "customFields") : RejectedForWrite(f))
          => /\ last'.raised.type = "PermissionError"
             /\ last'.raised.operation = "write"
             /\ last'.returned = <<>>
             /\ mock_contacts' = mock_contacts
       /\ (/\ last'.op = "search_contacts"
           /\ \E f \in NamedFields(last'.args, "customFieldFilters") : f \in BlockedSet)
          => /\ last'.raised.type = "PermissionError"
             /\ last'.raised.operation = "read"
             /\ last'.returned = <<>>
             /\ mock_contacts' = mock_contacts]_vars

\* an update of an id that is not stored named a read-only field
C26_Witness ==
    /\ last.op = "update_contact"
    /\ ~Exists(last.contact_id)
    /\ NamedFields(last.args, "customFields") = {"cultural_protocols"}
    /\ Raised(last, "PermissionError", "READ_ONLY")

\* the operation rejects the field
RejectedFor(f, operation) ==
    IF operation = "read" THEN f \in BlockedSet ELSE RejectedForWrite(f)

\* the violation of the call is the one of the first rejected key, in the
\* order in which the argument names the keys
ReportsFirstRejected(call, key, operation) ==
    LET fields == Keys(ArgGet(call.args, key, <<>>))
        rejected == {i \in 1..Len(fields) : RejectedFor(fields[i], operation)}
    IN rejected # {} =>
          \E i \in rejected :
              /\ \A j \in rejected : i <= j
              /\ call.raised = PermissionError(fields[i], operation, TierOf(fields[i]))

\* C27: an update or a search that names several rejected fields raises the
\* violation of the first rejected field in the order the fields are named,
\* with that field's tier.
C27_FirstRejectedReported ==
    /\ last.op = "update_contact" => ReportsFirstRejected(last, "customFields", "write")
    /\ last.op = "search_contacts" => ReportsFirstRejected(last, "customFieldFilters", "read")

\* a read-only field named before a blocked one is the field reported
C27_Witness ==
    /\ last.op = "update_contact"
    /\ Keys(ArgGet(last.args, "customFields", <<>>)) = <<"cultural_protocols", "sacred_knowledge">>
    /\ last.raised = PermissionError("cultural_protocols", "write", "READ_ONLY")


\* the keys of the review flag
FlagKeys == {"requires_review", "reason", "actions_blocked", "recommended_action"}

\* C28: get_contact, search_contacts and check_contact_cultural_protocols leave
\* every stored record as it was, whether they succeed or raise, and no key of
\* the review flag is written into a record.
C28_ReadsArePure ==
    [][last'.op \in {"get_contact", "search_contacts", "check_contact_cultural_protocols"}
        => /\ mock_contacts' = mock_contacts
           /\ \A i \in 1..Len(mock_contacts') :
                 DOMAIN mock_contacts'[i] \cap FlagKeys = {}
                 /\ DOMAIN mock_contacts'[i].customFields \cap FlagKeys = {}]_vars

\* a flagged record was read with get_contact and came back as it is stored
C28_Witness ==
    /\ last.op = "get_contact" /\ last.raised = NoError
    /\ check_contact_cultural_protocols(last.returned[1]).requires_review
    /\ last.returned[1] = Stored(last.contact_id)
    /\ "requires_review" \notin DOMAIN Stored(last.contact_id).customFields

====
